---- MODULE Spec2Model ----
(***************************************************************************)
(* State-machine model of the sensorpush-logger backend:                   *)
(*   - sp_ble.py: the advertisement queue, its single consumer             *)
(*     (advertisement_loop) and process_advertisement_event with the       *)
(*     scanner stop / GATT read / scanner start protocol;                  *)
(*   - sql_model.py: the devices, samples and device_names tables;         *)
(*   - graphql_resolvers.py / web_backend.py: the global sample_queue and  *)
(*     log_queue, their publishers and the subscription generators.        *)
(* Every await of the code is one step; the code between two awaits is     *)
(* atomic, as it is on the asyncio event loop.                             *)
(***************************************************************************)
EXTENDS Integers, Sequences, FiniteSets

\* ------------------------------------------------------------------ bounds
\* number of advertisements the scanner delivers in one run
MaxAds == 2
\* number of subscriptions opened on a feed in one run
NumSubs == 3
\* number of items published on a feed in one run
MaxItems == 2
\* number of calls made on the storage engine by its callers in one run
MaxCalls == 3
\* the wall clock shows the seconds 0..MaxTime
MaxTime == 1
\* the identity characteristic returns at most MaxPayload bytes
MaxPayload == 5

\* ------------------------------------------------------------- environment
\* radio addresses in range; address 3 is a device whose identity
\* characteristic holds the same number as address 1
Addresses == {1, 2, 3}
DeviceNumber(a) == IF a = 3 THEN 1 ELSE a
\* what an advertisement decodes to:
\*   "full"        supported, temperature and humidity present
\*   "partial"     supported, a reading is absent
\*   "unsupported" sensorpush_data.supported() is false
\*   "malformed"   decoding / formatting raises before the try block
\* the advertisements the scanner may deliver: a full reading from any address;
\* the other kinds do not depend on the address beyond its being registered
AdInputs ==
  {[addr |-> a, kind |-> "full"] : a \in Addresses}
    \cup {[addr |-> 1, kind |-> k] : k \in {"partial", "unsupported", "malformed"}}
Events == 1..MaxAds
Subs == 1..NumSubs
\* the value of Python's None where a device number is expected
NoneVal == -1

VARIABLES
  scanning,             \* the BleakScanner is started
  ads,                  \* advertisements seen by handle_advertisement, in order
  put_tasks,            \* tasks created for advertisement_queue.put, in creation order
  advertisement_queue,  \* sp_ble.advertisement_queue
  loop,                 \* position of advertisement_loop
  proc,                 \* position of process_advertisement_event per event
  calls,                \* the calls made on scanner, radio and storage, in order
  devices,              \* rows of table devices
  samples,              \* rows of table samples, in insertion order
  device_names,         \* rows of table device_names
  pub,                  \* position of the on_sample / publish_sample tasks per event
  phase,                \* position of the lifespan shutdown
  sample_queue,         \* graphql_resolvers.sample_queue
  sample_pub,           \* per published sample: the subscriptions open at that time
  sample_sub,           \* state of each sensor_updates_subscription
  sample_recv,          \* what each sensor_updates_subscription has yielded
  log_queue,            \* graphql_resolvers.log_queue
  log_pub,              \* per emitted log entry: the subscriptions open at that time
  log_sub,              \* state of each log_messages_subscription
  log_recv,             \* what each log_messages_subscription has yielded
  now,                  \* the value of CURRENT_TIMESTAMP, in seconds
  reply,                \* what the last query of the API layer returned
  conn,                 \* the transaction open on the shared connection, and the
                        \* position of each coroutine that writes through it
  ready,                \* the coroutines the event loop is about to run, in order
  worker                \* the requests queued for the thread of the connection

apiVars == <<now, reply, conn, ready, worker>>
ingestVars == <<scanning, ads, put_tasks, advertisement_queue, loop, proc, calls,
                devices, samples, device_names, pub, phase, apiVars>>
sampleHubVars == <<sample_pub, sample_sub, sample_recv>>
logHubVars == <<log_queue, log_pub, log_sub, log_recv>>
vars == <<scanning, ads, put_tasks, advertisement_queue, loop, proc, calls,
          devices, samples, device_names, pub, phase, sample_queue, sample_pub, sample_sub, sample_recv,
          log_queue, log_pub, log_sub, log_recv, now, reply, conn, ready, worker>>

Range(s) == {s[i] : i \in DOMAIN s}

\* ------------------------------------------------------------- sql_model.py
\* faulty variant of device_exists: the lookup never finds the row
device_exists_always_false(ble_id) == FALSE

device_exists(ble_id) == \E d \in devices : d.ble_id = ble_id

get_device_sp_id(ble_id) ==
  IF \E d \in devices : d.ble_id = ble_id
    THEN (CHOOSE d \in devices : d.ble_id = ble_id).sp_id
    ELSE NoneVal

\* faulty variant of device_sp_id_exists: every number is taken as registered
device_sp_id_exists_always(sp_id) == TRUE

device_sp_id_exists(sp_id) == \E d \in devices : d.sp_id = sp_id

\* faulty variant of add_device_conflict: only sp_id is UNIQUE
add_device_conflict_sp_id_only(sp_id, ble_id) ==
  \E d \in devices : d.sp_id = sp_id

\* faulty variant of add_device_conflict: only ble_id is UNIQUE
add_device_conflict_ble_id_only(sp_id, ble_id) ==
  \E d \in devices : d.ble_id = ble_id

\* the UNIQUE constraints of table devices
add_device_conflict(sp_id, ble_id) ==
  \E d \in devices : d.sp_id = sp_id \/ d.ble_id = ble_id

add_device_rows(sp_id, ble_id) ==
  devices \cup {[sp_id |-> sp_id, ble_id |-> ble_id]}

\* faulty variant of foreign_keys: the pragma is not set
foreign_keys_off == FALSE

\* connect, line 43: PRAGMA foreign_keys = ON
foreign_keys == TRUE

\* add_sample lines 132-153: the INSERT violates FOREIGN KEY (device_sp_id)
\* REFERENCES devices(sp_id) when no device has that sp_id; fault is a storage
\* error other than an integrity error
add_sample_result(sp_id, fault) ==
  IF fault THEN "err"
  ELSE IF foreign_keys /\ ~device_sp_id_exists(sp_id) THEN "reference"
  ELSE "ok"

\* faulty variant of device_names_upsert: a plain INSERT
device_names_insert(sp_id, name) ==
  device_names \cup {[id |-> Cardinality(device_names) + 1,
                      device_sp_id |-> sp_id, name |-> name]}

\* update_device_name lines 278-281: INSERT INTO device_names ... ON
\* CONFLICT(device_sp_id) DO UPDATE SET name = excluded.name
device_names_upsert(sp_id, name) ==
  IF \E r \in device_names : r.device_sp_id = sp_id
    THEN {IF r.device_sp_id = sp_id THEN [r EXCEPT !.name = name] ELSE r :
            r \in device_names}
    ELSE device_names \cup {[id |-> Cardinality(device_names) + 1,
                             device_sp_id |-> sp_id, name |-> name]}

\* get_all_sensors_with_names: devices LEFT JOIN device_names, the name of a
\* device without a name row is ''
get_all_sensors_with_names ==
  {[sp_id |-> d.sp_id, ble_id |-> d.ble_id, friendly_name |-> r.name, row |-> r.id] :
     <<d, r>> \in {x \in devices \X device_names : x[1].sp_id = x[2].device_sp_id}}
  \cup {[sp_id |-> d.sp_id, ble_id |-> d.ble_id, friendly_name |-> "", row |-> 0] :
          d \in {x \in devices : ~\E r \in device_names : r.device_sp_id = x.sp_id}}

\* ------------------------------------------------- sql_model.py: the queries
\* a row of table samples as a query returns it: id is the position of the row
SampleRow(k) ==
  [id |-> k, device_sp_id |-> samples[k].device_sp_id,
   created_on |-> samples[k].created_on, ev |-> samples[k].ev]

\* the value of Python's None where a name is expected
NoneName == "None"

\* faulty variant of friendly_name: dn.name without COALESCE
friendly_name_null(sp_id) ==
  IF \E r \in device_names : r.device_sp_id = sp_id
    THEN (CHOOSE r \in device_names : r.device_sp_id = sp_id).name
    ELSE NoneName

\* COALESCE(dn.name, '') over the LEFT JOIN with device_names
friendly_name(sp_id) ==
  IF \E r \in device_names : r.device_sp_id = sp_id
    THEN (CHOOSE r \in device_names : r.device_sp_id = sp_id).name
    ELSE ""

\* SqlModel.get_sensor_by_sp_id (lines 304-321): the row of devices with its
\* name, as the list of the rows fetchone() can take: empty stands for None
get_sensor_by_sp_id(sp_id) ==
  IF \E d \in devices : d.sp_id = sp_id
    THEN LET d == CHOOSE x \in devices : x.sp_id = sp_id
         IN <<[sp_id |-> d.sp_id, ble_id |-> d.ble_id,
               friendly_name |-> friendly_name(sp_id)]>>
    ELSE <<>>

\* faulty variant of RankedFirst: ORDER BY created_on ASC
RankedFirstAscending(k) ==
  \A j \in DOMAIN samples :
    samples[j].device_sp_id = samples[k].device_sp_id
      => samples[j].created_on >= samples[k].created_on

\* get_latest_sample_for_all_sensors lines 246-263: row k can get ROW_NUMBER()
\* 1 in PARTITION BY device_sp_id ORDER BY created_on DESC; the ORDER BY names
\* no other column, so among rows of equal created_on any one can be first
RankedFirst(k) ==
  \A j \in DOMAIN samples :
    samples[j].device_sp_id = samples[k].device_sp_id
      => samples[j].created_on <= samples[k].created_on

\* the mappings sp_id -> row that get_latest_sample_for_all_sensors can return
LatestMaps ==
  LET D == {samples[k].device_sp_id : k \in DOMAIN samples}
  IN {[sp_id \in D |-> SampleRow(m[sp_id])] :
        m \in {f \in [D -> DOMAIN samples] :
                 \A sp_id \in D : /\ samples[f[sp_id]].device_sp_id = sp_id
                                   /\ RankedFirst(f[sp_id])}}

\* the datetime values the API layer may pass: naive, or aware in UTC
DateTimes == [t : 0..MaxTime, tz : {"naive", "utc"}]

\* sqlite3's adapter binds a datetime as the text isoformat(" "): an aware
\* value ends in its offset; CURRENT_TIMESTAMP stores 'YYYY-MM-DD HH:MM:SS'
adapt_datetime(dt) == [t |-> dt.t, suffix |-> IF dt.tz = "naive" THEN "" ELSE "+00:00"]
timestamp_text(t) == [t |-> t, suffix |-> ""]

\* comparison of two such texts, byte by byte: the texts of two seconds compare
\* as the seconds do, and a text is smaller than itself with a suffix
TextLeq(a, b) ==
  \/ a.t < b.t
  \/ a.t = b.t /\ (a.suffix = "" \/ a.suffix = b.suffix)

\* get_samples_for_export line 208: s.created_on BETWEEN ? AND ?
Between(x, lo, hi) == TextLeq(lo, x) /\ TextLeq(x, hi)

\* the row lists get_samples_for_export can return (lines 204-210): the rows in
\* the range, ORDER BY s.created_on ASC, each with the name of its device
ExportLists(begin_dt, end_dt) ==
  LET S == {k \in DOMAIN samples :
              Between(timestamp_text(samples[k].created_on),
                      adapt_datetime(begin_dt), adapt_datetime(end_dt))}
      n == Cardinality(S)
  IN {[i \in 1..n |-> [row |-> SampleRow(f[i]),
                       friendly_name |-> friendly_name(samples[f[i]].device_sp_id)]] :
        f \in {g \in [1..n -> S] :
                 /\ \A i, j \in 1..n : i # j => g[i] # g[j]
                 /\ \A i, j \in 1..n :
                      i < j => samples[g[i]].created_on <= samples[g[j]].created_on}}

\* the system clock moves: forward with time, back when it is adjusted
clock_change ==
  /\ \E t \in 0..MaxTime : t # now /\ now' = t
  /\ UNCHANGED <<scanning, ads, put_tasks, advertisement_queue, loop, proc, calls,
                 devices, samples, device_names, pub, phase, sample_queue,
                 sampleHubVars, logHubVars, reply, conn, ready, worker>>

\* SqlModel.get_latest_sample_for_all_sensors (lines 240-270)
get_latest_sample_for_all_sensors ==
  /\ \E m \in LatestMaps : reply' = [op |-> "latest", value |-> m]
  /\ UNCHANGED <<scanning, ads, put_tasks, advertisement_queue, loop, proc, calls,
                 devices, samples, device_names, pub, phase, sample_queue,
                 sampleHubVars, logHubVars, now, conn, ready, worker>>

\* SqlModel.get_samples_for_export (lines 198-215)
get_samples_for_export(begin_dt, end_dt) ==
  /\ \E rows \in ExportLists(begin_dt, end_dt) :
       reply' = [op |-> "export", args |-> <<begin_dt, end_dt>>, value |-> rows]
  /\ UNCHANGED <<scanning, ads, put_tasks, advertisement_queue, loop, proc, calls,
                 devices, samples, device_names, pub, phase, sample_queue,
                 sampleHubVars, logHubVars, now, conn, ready, worker>>

\* --------------------------------------------------------------- sp_ble.py
Call(op, e, res) == [op |-> op, ev |-> e, res |-> res]

Active(e) == proc[e] \in {"exists", "stop", "read", "add", "start",
                          "get_sp_id", "add_sample"}

\* faulty variant of GetIndex: a last-in first-out queue
GetIndexLifo(q) == Len(q)

\* asyncio.Queue is first-in first-out: get takes the item at this index
GetIndex(q) == 1

Without(q, i) == SubSeq(q, 1, i - 1) \o SubSeq(q, i + 1, Len(q))

\* asyncio.Queue() has maxsize 0: put never waits for a free slot
advertisement_queue_maxsize == 0

QueueFull(q, maxsize) == maxsize > 0 /\ Len(q) >= maxsize

\* handle_advertisement: the detection callback of the scanner. It creates a
\* task for advertisement_queue.put and returns.
handle_advertisement(ad) ==
  /\ scanning
  /\ Len(ads) < MaxAds
  /\ ads' = Append(ads, ad)
  /\ put_tasks' = Append(put_tasks, Len(ads) + 1)
  /\ UNCHANGED <<scanning, advertisement_queue, loop, proc, calls, devices,
                 samples, pub, sample_queue>>
  /\ UNCHANGED <<phase, device_names, sampleHubVars, logHubVars, apiVars>>

\* the put task runs: the event loop runs ready tasks in creation order
CanPut == put_tasks # <<>> /\ ~QueueFull(advertisement_queue, advertisement_queue_maxsize)

advertisement_queue_put ==
  /\ CanPut
  /\ advertisement_queue' = Append(advertisement_queue, Head(put_tasks))
  /\ put_tasks' = Tail(put_tasks)
  /\ UNCHANGED <<scanning, ads, loop, proc, calls, devices, samples, pub, sample_queue>>
  /\ UNCHANGED <<phase, device_names, sampleHubVars, logHubVars, apiVars>>

\* faulty variant of AdvLoopCanGet: the processing is spawned, not awaited
AdvLoopCanGetUnawaited == loop \in {"get", "process"}

\* advertisement_loop awaits process_advertisement_event before the next get
AdvLoopCanGet == loop = "get"

\* faulty variant of LoopAfterError: the loop ends on an error
LoopAfterErrorBreak == "stopped"

\* advertisement_loop, except Exception: log, sleep(1), next iteration
LoopAfterError == "sleep"

\* faulty variant of AfterUnsupported: the supported() test is not made
AfterUnsupportedProcessed == "exists"

\* lines 59, 113-116: when supported() is false only a debug line is logged
AfterUnsupported == "done"

\* advertisement_loop: get() returns an event; process_advertisement_event runs
\* to its first await (lines 48-78): decoding, the supported() test, logging.
advertisement_loop_get ==
  /\ AdvLoopCanGet
  /\ advertisement_queue # <<>>
  /\ LET i == GetIndex(advertisement_queue)
         e == advertisement_queue[i]
         k == ads[e].kind
     IN /\ advertisement_queue' = Without(advertisement_queue, i)
        /\ calls' = Append(calls, Call("get", e, k))
        /\ proc' = [proc EXCEPT ![e] =
                      CASE k = "malformed" -> "raised"
                        [] k = "unsupported" -> AfterUnsupported
                        [] OTHER -> "exists"]
        /\ loop' = CASE k = "malformed" -> LoopAfterError
                     [] k = "unsupported" /\ AfterUnsupported = "done" -> "get"
                     [] OTHER -> "process"
  /\ UNCHANGED <<scanning, ads, put_tasks, devices, samples, pub, sample_queue>>
  /\ UNCHANGED <<phase, device_names, sampleHubVars, logHubVars, apiVars>>

\* advertisement_loop: asyncio.sleep(1) after a logged error returns
advertisement_loop_sleep ==
  /\ loop = "sleep"
  /\ loop' = "get"
  /\ UNCHANGED <<scanning, ads, put_tasks, advertisement_queue, proc, calls,
                 devices, samples, pub, sample_queue>>
  /\ UNCHANGED <<phase, device_names, sampleHubVars, logHubVars, apiVars>>

\* the event's processing ends (normally, or with the error logged at line 111)
Finish(e, st) ==
  /\ proc' = [proc EXCEPT ![e] = st]
  /\ loop' = "get"

Goto(e, st) ==
  /\ proc' = [proc EXCEPT ![e] = st]
  /\ loop' = loop

\* faulty variant of AfterUnknown: the read is made without stopping the scanner
AfterUnknownReadFirst == "read"

\* lines 79-82: for a device that is not known the first call is scanner.stop()
AfterUnknown == "stop"

\* line 78: await db.device_exists(address); a storage error is caught at line 110
StepDeviceExists(e) ==
  /\ proc[e] = "exists"
  /\ \E fault \in BOOLEAN :
       LET known == device_exists(ads[e].addr)
           res == IF fault THEN "err" ELSE IF known THEN "true" ELSE "false"
       IN /\ calls' = Append(calls, Call("device_exists", e, res))
          /\ IF fault THEN Finish(e, "done")
             ELSE IF known THEN Goto(e, "get_sp_id")
             ELSE Goto(e, AfterUnknown)
  /\ UNCHANGED <<scanning, ads, put_tasks, advertisement_queue, devices, samples,
                 pub, sample_queue>>
  /\ UNCHANGED <<phase, device_names, sampleHubVars, logHubVars, apiVars>>

\* line 82: await scanner.stop(); an error is caught at line 110
StepScannerStop(e) ==
  /\ proc[e] = "stop"
  /\ \E fault \in BOOLEAN :
       /\ calls' = Append(calls, Call("stop", e, IF fault THEN "err" ELSE "ok"))
       /\ scanning' = IF fault THEN scanning ELSE FALSE
       /\ IF fault THEN Finish(e, "done") ELSE Goto(e, "read")
  /\ UNCHANGED <<ads, put_tasks, advertisement_queue, devices, samples, pub,
                 sample_queue>>
  /\ UNCHANGED <<phase, device_names, sampleHubVars, logHubVars, apiVars>>

\* faulty variant of enough_data: three bytes are accepted
enough_data_off_by_one(n) == n > 0 /\ n >= 3

\* read_device_id line 27: raw_val and len(raw_val) >= 4
enough_data(n) == n > 0 /\ n >= 4

\* what read_gatt_char may return: a value of 3 or of 4 bytes
RawValues == {"len3", "len4"}
RawLen(v) == IF v = "len3" THEN 3 ELSE 4

\* faulty variant of AfterReadDeviceId: a failure skips scanner.start()
ResumeOnlyOnSuccess(outcome) == IF outcome = "ok" THEN "start" ELSE "done"

\* where process_advertisement_event continues after read_device_id returns:
\* read_device_id logs every failure and returns normally, line 86 follows
AfterReadDeviceId(outcome) == "start"

\* read_device_id lines 25-29, 35-38: connect and read the characteristic; the
\* call is recorded with the error or the value read
StepRead(e) ==
  /\ proc[e] = "read"
  /\ \E fault \in BOOLEAN, v \in RawValues :
       LET res == IF fault THEN "err" ELSE IF enough_data(RawLen(v)) THEN "ok" ELSE "short"
       IN /\ calls' = Append(calls, Call("read", e, IF fault THEN "err" ELSE v))
          /\ IF res = "ok" THEN Goto(e, "add")
             ELSE IF AfterReadDeviceId(res) = "start" THEN Goto(e, "start")
             ELSE Finish(e, "done")
  /\ UNCHANGED <<scanning, ads, put_tasks, advertisement_queue, devices, samples,
                 pub, sample_queue>>
  /\ UNCHANGED <<phase, device_names, sampleHubVars, logHubVars, apiVars>>

\* read_device_id lines 30-34: await db.add_device(sp_id, address)
StepAddDevice(e) ==
  /\ proc[e] = "add"
  /\ \E fault \in BOOLEAN :
       LET a == ads[e].addr
           sp == DeviceNumber(a)
           res == IF fault THEN "err"
                  ELSE IF add_device_conflict(sp, a) THEN "conflict" ELSE "ok"
       IN /\ calls' = Append(calls, Call("add_device", e, res))
          /\ devices' = IF res = "ok" THEN add_device_rows(sp, a) ELSE devices
          /\ IF AfterReadDeviceId(res) = "start" THEN Goto(e, "start")
             ELSE Finish(e, "done")
  /\ UNCHANGED <<scanning, ads, put_tasks, advertisement_queue, samples, pub,
                 sample_queue>>
  /\ UNCHANGED <<phase, device_names, sampleHubVars, logHubVars, apiVars>>

\* faulty variant of AfterScannerStart: the known branch follows the resolution
AfterScannerStartFallThrough == "get_sp_id"

\* lines 79-87: the resolution is the if branch and the known device the else
\* branch, so after scanner.start() the processing of the event is over
AfterScannerStart == "done"

\* line 86: await scanner.start(); an error is caught at line 110
StepScannerStart(e) ==
  /\ proc[e] = "start"
  /\ \E fault \in BOOLEAN :
       /\ calls' = Append(calls, Call("start", e, IF fault THEN "err" ELSE "ok"))
       /\ scanning' = IF fault THEN scanning ELSE TRUE
       /\ IF fault \/ AfterScannerStart = "done" THEN Finish(e, "done")
          ELSE Goto(e, AfterScannerStart)
  /\ UNCHANGED <<ads, put_tasks, advertisement_queue, devices, samples, pub,
                 sample_queue>>
  /\ UNCHANGED <<phase, device_names, sampleHubVars, logHubVars, apiVars>>

\* faulty variant of has_readings: the readings are not looked at
has_readings_unchecked(kind) == TRUE

\* line 89: temperature is not None and humidity is not None
has_readings(kind) == kind = "full"

\* lines 88-89, 106-108: await db.get_device_sp_id(address)
StepGetSpId(e) ==
  /\ proc[e] = "get_sp_id"
  /\ \E fault \in BOOLEAN :
       LET sp == get_device_sp_id(ads[e].addr)
           res == IF fault THEN "err" ELSE IF sp = NoneVal THEN "none" ELSE "ok"
       IN /\ calls' = Append(calls, Call("get_device_sp_id", e, res))
          /\ IF res = "ok" /\ has_readings(ads[e].kind) THEN Goto(e, "add_sample")
             ELSE Finish(e, "done")
  /\ UNCHANGED <<scanning, ads, put_tasks, advertisement_queue, devices, samples,
                 pub, sample_queue>>
  /\ UNCHANGED <<phase, device_names, sampleHubVars, logHubVars, apiVars>>

\* faulty variant of add_sample_rows: the row is inserted twice
add_sample_rows_twice(sp_id, e) ==
  samples \o <<[device_sp_id |-> sp_id, ev |-> e, created_on |-> now],
               [device_sp_id |-> sp_id, ev |-> e, created_on |-> now]>>

\* sql_model.add_sample lines 134-138: one INSERT INTO samples, committed; ev is
\* the event the row was stored for (0: a call that is not made by the consumer)
\* and stands for the readings of that event; created_on is the column default
\* CURRENT_TIMESTAMP (line 72); the position in the sequence is the row id
add_sample_rows(sp_id, e) ==
  Append(samples, [device_sp_id |-> sp_id, ev |-> e, created_on |-> now])

\* faulty variant of on_sample_created: the task is created after the try block
on_sample_created_always(res) == TRUE

\* lines 91-103: create_task(on_sample(...)) follows the await of add_sample
\* inside the try block, so it is reached only when add_sample returned
on_sample_created(res) == res = "ok"

\* faulty variant of AfterAddSample: a failed add_sample is tried again
RetryAddSample(res) == IF res = "ok" THEN "done" ELSE "add_sample"

\* lines 104-105, 110-111: an error of add_sample is logged and the processing
\* of the event ends, as it does after a stored sample
AfterAddSample(res) == "done"

\* lines 90-105: await db.add_sample(...); on success the on_sample task is created
StepAddSample(e) ==
  /\ proc[e] = "add_sample"
  /\ \E fault \in BOOLEAN :
       LET sp == get_device_sp_id(ads[e].addr)
           res == add_sample_result(sp, fault)
       IN /\ calls' = Append(calls, Call("add_sample", e, res))
          /\ samples' = IF res = "ok" THEN add_sample_rows(sp, e) ELSE samples
          /\ pub' = IF on_sample_created(res) THEN [pub EXCEPT ![e] = "callback"] ELSE pub
          /\ IF AfterAddSample(res) = "done" THEN Finish(e, "done")
             ELSE Goto(e, AfterAddSample(res))
  /\ UNCHANGED <<scanning, ads, put_tasks, advertisement_queue, devices, sample_queue>>
  /\ UNCHANGED <<phase, device_names, sampleHubVars, logHubVars, apiVars>>

\* no query was made yet
NoReply == [op |-> "none"]

\* sqlite3 opens a transaction before the first INSERT or UPDATE on a connection
\* and keeps it until commit() or rollback(): snap holds the tables as they
\* were when the transaction began; pos is where each writing coroutine is
Writers == {"consumer", "api"}
\* a coroutine that is not inside a writing method of SqlModel
Idle == [at |-> "idle", op |-> "none", args |-> <<>>, res |-> "none"]
NoSnapshot == [devices |-> {}, samples |-> <<>>, device_names |-> {}]
NoTransaction == [open |-> FALSE, snap |-> NoSnapshot, pos |-> [w \in Writers |-> Idle]]

\* the state after startup (lifespan lines 72-99) on a database file that holds
\* the device rows devs: the tables are created only if they do not exist
InitWith(devs) ==
  /\ scanning = TRUE
  /\ ads = <<>>
  /\ put_tasks = <<>>
  /\ advertisement_queue = <<>>
  /\ loop = "get"
  /\ proc = [e \in Events |-> "none"]
  /\ calls = <<>>
  /\ devices = devs
  /\ samples = <<>>
  /\ device_names = {}
  /\ pub = [e \in Events |-> "none"]
  /\ phase = "running"
  /\ sample_queue = <<>>
  /\ sample_pub = <<>>
  /\ sample_sub = [s \in Subs |-> "new"]
  /\ sample_recv = [s \in Subs |-> <<>>]
  /\ log_queue = <<>>
  /\ log_pub = <<>>
  /\ log_sub = [s \in Subs |-> "new"]
  /\ log_recv = [s \in Subs |-> <<>>]
  /\ now = 0
  /\ reply = NoReply
  /\ conn = NoTransaction
  /\ ready = <<>>
  /\ worker = <<>>

\* the first start: the database is new
Init == InitWith({})

\* the state when lifespan is entered (lines 75-77): db, scanner and ble_task
\* are None, nothing has been started
Boot ==
  /\ scanning = FALSE
  /\ ads = <<>>
  /\ put_tasks = <<>>
  /\ advertisement_queue = <<>>
  /\ loop = "stopped"
  /\ proc = [e \in Events |-> "none"]
  /\ calls = <<>>
  /\ devices = {}
  /\ samples = <<>>
  /\ device_names = {}
  /\ pub = [e \in Events |-> "none"]
  /\ phase = "starting"
  /\ sample_queue = <<>>
  /\ sample_pub = <<>>
  /\ sample_sub = [s \in Subs |-> "new"]
  /\ sample_recv = [s \in Subs |-> <<>>]
  /\ log_queue = <<>>
  /\ log_pub = <<>>
  /\ log_sub = [s \in Subs |-> "new"]
  /\ log_recv = [s \in Subs |-> <<>>]
  /\ now = 0
  /\ reply = NoReply
  /\ conn = NoTransaction
  /\ ready = <<>>
  /\ worker = <<>>

\* a later start: device number 1 at address 1 was registered in an earlier run
RestartInit == InitWith({[sp_id |-> 1, ble_id |-> 1]})

\* ----------------------------------------- graphql_resolvers.py: publishing
\* graphql_resolvers lines 15, 17: asyncio.Queue() has maxsize 0
sample_queue_maxsize == 0
log_queue_maxsize == 0

\* faulty variant of SampleQueueFull: the queue holds one item
SampleQueueFullAtOne == Len(sample_queue) >= 1

SampleQueueFull == QueueFull(sample_queue, sample_queue_maxsize)

\* publish_sample line 269: await sample_queue.put(sample_obj); put waits while
\* the queue is full
publish_sample_put(item) ==
  /\ ~SampleQueueFull
  /\ sample_queue' = Append(sample_queue, item)
  /\ sample_pub' = Append(sample_pub, {s \in Subs : sample_sub[s] \in {"waiting", "yielded"}})

\* web_backend.on_sample_callback (lines 89-93): the task created at sp_ble line
\* 103 runs and creates the publish_sample task
on_sample_callback(e) ==
  /\ pub[e] = "callback"
  /\ pub' = [pub EXCEPT ![e] = "lookup"]
  /\ UNCHANGED <<scanning, ads, put_tasks, advertisement_queue, loop, proc, calls,
                 devices, samples, phase, sample_queue>>
  /\ UNCHANGED <<device_names, sampleHubVars, logHubVars, apiVars>>

\* publish_sample lines 245-246: the name in the row of get_sensor_by_sp_id, ''
\* when there is no row
sensor_friendly_name(sp_id) ==
  IF get_sensor_by_sp_id(sp_id) = <<>> THEN ""
  ELSE get_sensor_by_sp_id(sp_id)[1].friendly_name

\* publish_sample (lines 225-273): await db.get_sensor_by_sp_id, then the put;
\* any error is logged and the sample is not published. id stands for the
\* temperature and humidity of sample_data, which are those of event e
publish_sample(e) ==
  /\ pub[e] = "lookup"
  /\ \E fault \in BOOLEAN :
       IF fault \/ phase = "closed"
         THEN /\ pub' = [pub EXCEPT ![e] = "failed"]
              /\ UNCHANGED <<sample_queue, sample_pub>>
         ELSE /\ pub' = [pub EXCEPT ![e] = "done"]
              /\ publish_sample_put(
                   [id |-> e,
                    device_sp_id |-> DeviceNumber(ads[e].addr),
                    friendly_name |-> sensor_friendly_name(DeviceNumber(ads[e].addr))])
  /\ UNCHANGED <<scanning, ads, put_tasks, advertisement_queue, loop, proc, calls,
                 devices, samples, phase>>
  /\ UNCHANGED <<device_names, sample_sub, sample_recv, logHubVars, apiVars>>

\* ----------------------------- the pipeline as the event loop schedules it
\* The coroutines of the pipeline run on one event loop, which runs the ready
\* coroutines in the order in which they became ready, and every await of a
\* SqlModel method on self.conn is a request to the one thread of the
\* connection, which serves the requests in the order in which they were made.
\* A coroutine is the consumer (advertisement_loop), the task created at sp_ble
\* line 103 (callback) or the task created at web_backend line 91 (publish);
\* left is the number of awaits left in the SqlModel method it is inside of
Co(k, e, left) == [k |-> k, e |-> e, left |-> left]

\* the awaits on self.conn in device_exists (165-168), get_device_sp_id
\* (188-191), add_sample (132-138, 155) and get_sensor_by_sp_id (316-318)
Awaits(op) == IF op = "get_sensor_by_sp_id" THEN 3 ELSE 4

\* the consumer is suspended in advertisement_queue.get()
ConsumerIdle ==
  \A i \in DOMAIN (ready \o worker) : (ready \o worker)[i].k \notin {"consumer", "cancelled"}

\* faulty variant of WorkerIndex: the thread serves the newest request first
WorkerIndexLifo(q) == Len(q)

\* the thread of the connection takes the requests from a queue, oldest first
WorkerIndex(q) == 1

\* the answer to a request: a request of SqlModel.close (line 329) closes the
\* connection, and a request that is answered after that is answered with an
\* error (left = -1)
Served(c) ==
  IF c.k # "close" /\ phase = "closed" THEN [c EXCEPT !.left = -1] ELSE c

\* the thread of the connection serves a request and hands the result to the
\* event loop, which makes the waiting coroutine ready
worker_run ==
  /\ worker # <<>>
  /\ ready' = Append(ready, Served(worker[WorkerIndex(worker)]))
  /\ worker' = Without(worker, WorkerIndex(worker))
  /\ phase' = IF worker[WorkerIndex(worker)].k = "close" THEN "closed" ELSE phase
  /\ UNCHANGED <<scanning, ads, put_tasks, advertisement_queue, loop, proc, calls,
                 devices, samples, device_names, pub, sample_queue,
                 sampleHubVars, logHubVars, now, reply, conn>>

\* a coroutine resumes inside a SqlModel method and reaches its next await
loop_resubmit ==
  /\ ready # <<>>
  /\ Head(ready).left > 1
  /\ ready' = Tail(ready)
  /\ worker' = Append(worker, [Head(ready) EXCEPT !.left = @ - 1])
  /\ UNCHANGED <<scanning, ads, put_tasks, advertisement_queue, loop, proc, calls,
                 devices, samples, device_names, pub, phase, sample_queue,
                 sampleHubVars, logHubVars, now, reply, conn>>

\* advertisement_loop line 138 and process_advertisement_event up to its first
\* await (line 78), for an advertisement of a supported sensor
loop_get ==
  /\ AdvLoopCanGet
  /\ ConsumerIdle
  /\ advertisement_queue # <<>>
  /\ LET i == GetIndex(advertisement_queue)
         e == advertisement_queue[i]
     IN /\ ads[e].kind \in {"full", "partial"}
        /\ advertisement_queue' = Without(advertisement_queue, i)
        /\ calls' = Append(calls, Call("get", e, ads[e].kind))
        /\ proc' = [proc EXCEPT ![e] = "exists"]
        /\ loop' = "process"
        /\ worker' = Append(worker, Co("consumer", e, Awaits("device_exists")))
  /\ UNCHANGED <<scanning, ads, put_tasks, devices, samples, device_names, pub,
                 phase, sample_queue, sampleHubVars, logHubVars, now, reply, conn,
                 ready>>

\* line 78: db.device_exists returns to the consumer; for a known device the
\* consumer goes on to db.get_device_sp_id (line 88)
loop_device_exists(e) ==
  /\ ready # <<>> /\ Head(ready) = Co("consumer", e, 1)
  /\ proc[e] = "exists"
  /\ device_exists(ads[e].addr)
  /\ \E fault \in BOOLEAN :
       /\ calls' = Append(calls, Call("device_exists", e,
                                      IF fault THEN "err" ELSE "true"))
       /\ IF fault THEN Finish(e, "done") /\ worker' = worker
          ELSE /\ Goto(e, "get_sp_id")
               /\ worker' = Append(worker, Co("consumer", e, Awaits("get_device_sp_id")))
  /\ ready' = Tail(ready)
  /\ UNCHANGED <<scanning, ads, put_tasks, advertisement_queue, devices, samples,
                 device_names, pub, phase, sample_queue, sampleHubVars, logHubVars,
                 now, reply, conn>>

\* lines 88-91: db.get_device_sp_id returns to the consumer, which goes on to
\* db.add_sample when the advertisement has both readings
loop_get_sp_id(e) ==
  /\ ready # <<>> /\ Head(ready) = Co("consumer", e, 1)
  /\ proc[e] = "get_sp_id"
  /\ \E fault \in BOOLEAN :
       LET sp == get_device_sp_id(ads[e].addr)
           res == IF fault THEN "err" ELSE IF sp = NoneVal THEN "none" ELSE "ok"
       IN /\ calls' = Append(calls, Call("get_device_sp_id", e, res))
          /\ IF res = "ok" /\ has_readings(ads[e].kind)
               THEN /\ Goto(e, "add_sample")
                    /\ worker' = Append(worker, Co("consumer", e, Awaits("add_sample")))
               ELSE Finish(e, "done") /\ worker' = worker
  /\ ready' = Tail(ready)
  /\ UNCHANGED <<scanning, ads, put_tasks, advertisement_queue, devices, samples,
                 device_names, pub, phase, sample_queue, sampleHubVars, logHubVars,
                 now, reply, conn>>

\* lines 91-103: db.add_sample returns to the consumer, which creates the
\* on_sample task and goes back to advertisement_queue.get()
loop_add_sample(e) ==
  /\ ready # <<>> /\ Head(ready) = Co("consumer", e, 1)
  /\ proc[e] = "add_sample"
  /\ \E fault \in BOOLEAN :
       LET sp == get_device_sp_id(ads[e].addr)
           res == add_sample_result(sp, fault)
       IN /\ calls' = Append(calls, Call("add_sample", e, res))
          /\ samples' = IF res = "ok" THEN add_sample_rows(sp, e) ELSE samples
          /\ pub' = IF on_sample_created(res) THEN [pub EXCEPT ![e] = "callback"] ELSE pub
          /\ ready' = IF on_sample_created(res)
                        THEN Append(Tail(ready), Co("callback", e, 0))
                        ELSE Tail(ready)
          /\ Finish(e, "done")
  /\ UNCHANGED <<scanning, ads, put_tasks, advertisement_queue, devices,
                 device_names, phase, sample_queue, sampleHubVars, logHubVars,
                 now, reply, conn, worker>>

\* web_backend.on_sample_callback (lines 89-93) runs and creates the
\* publish_sample task
loop_on_sample_callback(e) ==
  /\ ready # <<>> /\ Head(ready) = Co("callback", e, 0)
  /\ pub' = [pub EXCEPT ![e] = "lookup"]
  /\ ready' = Append(Tail(ready), Co("publish", e, 0))
  /\ UNCHANGED <<scanning, ads, put_tasks, advertisement_queue, loop, proc, calls,
                 devices, samples, device_names, phase, sample_queue,
                 sampleHubVars, logHubVars, now, reply, conn, worker>>

\* publish_sample runs to its await of db.get_sensor_by_sp_id (line 245)
loop_publish_sample_start(e) ==
  /\ ready # <<>> /\ Head(ready) = Co("publish", e, 0)
  /\ ready' = Tail(ready)
  /\ worker' = Append(worker, Co("publish", e, Awaits("get_sensor_by_sp_id")))
  /\ UNCHANGED <<scanning, ads, put_tasks, advertisement_queue, loop, proc, calls,
                 devices, samples, device_names, pub, phase, sample_queue,
                 sampleHubVars, logHubVars, now, reply, conn>>

\* publish_sample lines 245-273: db.get_sensor_by_sp_id returns and the record
\* is put on sample_queue; an error is logged and nothing is put
loop_publish_sample_put(e) ==
  /\ ready # <<>> /\ Head(ready) = Co("publish", e, 1)
  /\ \E fault \in BOOLEAN :
       IF fault
         THEN /\ pub' = [pub EXCEPT ![e] = "failed"]
              /\ UNCHANGED <<sample_queue, sample_pub>>
         ELSE /\ pub' = [pub EXCEPT ![e] = "done"]
              /\ publish_sample_put(
                   [id |-> e,
                    device_sp_id |-> DeviceNumber(ads[e].addr),
                    friendly_name |-> sensor_friendly_name(DeviceNumber(ads[e].addr))])
  /\ ready' = Tail(ready)
  /\ UNCHANGED <<scanning, ads, put_tasks, advertisement_queue, loop, proc, calls,
                 devices, samples, device_names, phase, sample_sub, sample_recv,
                 logHubVars, now, reply, conn, worker>>

\* ------------------------------------------- web_backend.py: lifespan entry
\* faulty variant of AfterCreateFailed: the error is logged and startup goes on
AfterCreateFailedContinue == "db_ready"

\* lines 101-114: an exception of SqlModel.create (which logs and raises again,
\* sql_model 46-48) is caught by except Exception; ble_task, scanner and db are
\* still None, so nothing is cleaned up, and app.state.db, app.state.scanner
\* and app.state.ble_task are set to None
AfterCreateFailed == "failed"

\* app.state.db holds a SqlModel whose connection is open
db_available == phase \in {"db_ready", "running", "cancelled", "scanner_stopped"}

\* lines 80-81: db = await SqlModel.create(); app.state.db = db
startup_create_db ==
  /\ phase = "starting"
  /\ \E fault \in BOOLEAN :
       /\ calls' = Append(calls, Call("create", 0, IF fault THEN "err" ELSE "ok"))
       /\ phase' = IF fault THEN AfterCreateFailed ELSE "db_ready"
  /\ UNCHANGED <<scanning, ads, put_tasks, advertisement_queue, loop, proc, devices,
                 samples, pub, sample_queue>>
  /\ UNCHANGED <<device_names, sampleHubVars, logHubVars, apiVars>>

\* lines 85-99: scanner = create_scanner(); await scanner.start(); the consumer
\* task is created. When start() raises, the handler (101-114) awaits
\* scanner.stop() and db.close() and sets the three attributes to None
startup_start_scanner ==
  /\ phase = "db_ready"
  /\ \E fault \in BOOLEAN :
       /\ calls' = Append(calls, Call("start", 0, IF fault THEN "err" ELSE "ok"))
       /\ scanning' = ~fault
       /\ loop' = IF fault THEN "stopped" ELSE "get"
       /\ phase' = IF fault THEN "failed" ELSE "running"
  /\ UNCHANGED <<ads, put_tasks, advertisement_queue, proc, devices, samples, pub,
                 sample_queue>>
  /\ UNCHANGED <<device_names, sampleHubVars, logHubVars, apiVars>>

\* -------------------------------------------- web_backend.py: lifespan exit
\* lines 122-126: ble_task.cancel(); await ble_task. CancelledError is raised at
\* the await the consumer is suspended in; except Exception does not catch it.
\* faulty variant of LoopAfterCancel: the loop goes on to its next iteration
LoopAfterCancelContinue == "get"

\* advertisement_loop lines 142-144: except asyncio.CancelledError: break
LoopAfterCancel == "stopped"

shutdown_cancel ==
  /\ phase = "running"
  /\ phase' = "cancelled"
  /\ loop' = LoopAfterCancel
  /\ proc' = [e \in Events |-> IF Active(e) THEN "cancelled" ELSE proc[e]]
  /\ UNCHANGED <<scanning, ads, put_tasks, advertisement_queue, calls, devices,
                 samples, pub, sample_queue>>
  /\ UNCHANGED <<device_names, sampleHubVars, logHubVars, apiVars>>

\* lines 128-133: await app.state.scanner.stop()
shutdown_stop_scanner ==
  /\ phase = "cancelled"
  /\ phase' = "scanner_stopped"
  /\ scanning' = FALSE
  /\ UNCHANGED <<ads, put_tasks, advertisement_queue, loop, proc, calls, devices,
                 samples, pub, sample_queue>>
  /\ UNCHANGED <<device_names, sampleHubVars, logHubVars, apiVars>>

\* lines 135-140: await app.state.db.close()
shutdown_close_db ==
  /\ phase = "scanner_stopped"
  /\ phase' = "closed"
  /\ UNCHANGED <<scanning, ads, put_tasks, advertisement_queue, loop, proc, calls,
                 devices, samples, pub, sample_queue>>
  /\ UNCHANGED <<device_names, sampleHubVars, logHubVars, apiVars>>

\* ------------------------- the lifespan exit as the event loop schedules it
\* publish_sample lines 272-273: an await on the connection raised; the error
\* is logged and nothing is put
loop_publish_sample_failed(e) ==
  /\ ready # <<>> /\ Head(ready) = Co("publish", e, -1)
  /\ pub' = [pub EXCEPT ![e] = "failed"]
  /\ ready' = Tail(ready)
  /\ UNCHANGED <<scanning, ads, put_tasks, advertisement_queue, loop, proc, calls,
                 devices, samples, device_names, phase, sample_queue,
                 sampleHubVars, logHubVars, now, reply, conn, worker>>

\* the consumer after ble_task.cancel(): CancelledError is raised at the await
\* it is suspended in. Inside the try of add_sample (lines 133-155: the execute
\* or the commit is pending) the finally clause awaits cursor.close() first
Cancelled(c) ==
  Co("cancelled", c.e, IF proc[c.e] = "add_sample" /\ c.left \in {2, 3} THEN 1 ELSE 0)

\* web_backend lines 122-124 as the event loop schedules them: ble_task.cancel()
\* makes the consumer ready with the CancelledError, and the lifespan awaits
\* the end of ble_task
loop_shutdown_cancel ==
  /\ phase = "running"
  /\ phase' = "cancelled"
  /\ loop' = LoopAfterCancel
  /\ proc' = [e \in Events |-> IF Active(e) THEN "cancelled" ELSE proc[e]]
  /\ ready' =
       IF \E i \in DOMAIN ready : ready[i].k = "consumer"
         THEN [i \in DOMAIN ready |->
                 IF ready[i].k = "consumer" THEN Cancelled(ready[i]) ELSE ready[i]]
       ELSE IF \E i \in DOMAIN worker : worker[i].k = "consumer"
         THEN Append(ready,
                     Cancelled(worker[CHOOSE i \in DOMAIN worker : worker[i].k = "consumer"]))
       ELSE Append(ready, Co("cancelled", 0, 0))
  /\ worker' = SelectSeq(worker, LAMBDA c : c.k # "consumer")
  /\ UNCHANGED <<scanning, ads, put_tasks, advertisement_queue, calls, devices,
                 samples, device_names, pub, sample_queue, sampleHubVars,
                 logHubVars, now, reply, conn>>

\* the cancelled consumer runs: it awaits the cursor.close() of the finally
\* clause, or it ends (sp_ble lines 142-144), which ends the lifespan's await
\* of ble_task (web_backend line 124)
loop_consumer_cancelled ==
  /\ ready # <<>> /\ Head(ready).k = "cancelled"
  /\ IF Head(ready).left = 1
       THEN /\ ready' = Tail(ready)
            /\ worker' = Append(worker, [Head(ready) EXCEPT !.left = 0])
       ELSE /\ ready' = Append(Tail(ready), Co("lifespan", 0, 0))
            /\ worker' = worker
  /\ UNCHANGED <<scanning, ads, put_tasks, advertisement_queue, loop, proc, calls,
                 devices, samples, device_names, pub, phase, sample_queue,
                 sampleHubVars, logHubVars, now, reply, conn>>

\* web_backend lines 128-131: the lifespan awaits scanner.stop()
loop_shutdown_stop_scanner ==
  /\ ready # <<>> /\ Head(ready) = Co("lifespan", 0, 0)
  /\ phase' = "stopping"
  /\ ready' = Tail(ready)
  /\ UNCHANGED <<scanning, ads, put_tasks, advertisement_queue, loop, proc, calls,
                 devices, samples, device_names, pub, sample_queue, sampleHubVars,
                 logHubVars, now, reply, conn, worker>>

\* scanner.stop() returns or raises (lines 131-133), after the time the
\* Bluetooth stack takes, and the lifespan is ready again
scanner_stop_returns ==
  /\ phase = "stopping"
  /\ phase' = "scanner_stopped"
  /\ scanning' = FALSE
  /\ ready' = Append(ready, Co("lifespan", 0, 1))
  /\ UNCHANGED <<ads, put_tasks, advertisement_queue, loop, proc, calls, devices,
                 samples, device_names, pub, sample_queue, sampleHubVars,
                 logHubVars, now, reply, conn, worker>>

\* web_backend lines 135-138 and SqlModel.close line 329: the lifespan awaits
\* self.conn.close(), a request to the thread of the connection
loop_shutdown_close_db ==
  /\ ready # <<>> /\ Head(ready) = Co("lifespan", 0, 1)
  /\ ready' = Tail(ready)
  /\ worker' = Append(worker, Co("close", 0, 1))
  /\ UNCHANGED <<scanning, ads, put_tasks, advertisement_queue, loop, proc, calls,
                 devices, samples, device_names, pub, phase, sample_queue,
                 sampleHubVars, logHubVars, now, reply, conn>>

\* SqlModel.close line 330 and web_backend lines 139-141: self.conn.close() has
\* returned and the lifespan ends
loop_shutdown_closed ==
  /\ ready # <<>> /\ Head(ready) = Co("close", 0, 1)
  /\ ready' = Tail(ready)
  /\ UNCHANGED <<scanning, ads, put_tasks, advertisement_queue, loop, proc, calls,
                 devices, samples, device_names, pub, phase, sample_queue,
                 sampleHubVars, logHubVars, now, reply, conn, worker>>

\* ------------------------------ graphql_resolvers.py: the sample subscription
\* a client subscribes: sensor_updates_subscription runs to sample_queue.get()
sensor_updates_subscribe(s) ==
  /\ sample_sub[s] = "new"
  /\ sample_sub' = [sample_sub EXCEPT ![s] = "waiting"]
  /\ UNCHANGED <<ingestVars, sample_queue, sample_pub, sample_recv, logHubVars>>

\* line 182-195: sample_queue.get() returns the head of the one global queue to
\* whichever waiting subscription gets it, which yields it to its client
sensor_updates_get(s) ==
  /\ sample_sub[s] = "waiting"
  /\ sample_queue # <<>>
  /\ sample_recv' = [sample_recv EXCEPT ![s] = Append(@, Head(sample_queue).id)]
  /\ sample_queue' = Tail(sample_queue)
  /\ sample_sub' = [sample_sub EXCEPT ![s] = "yielded"]
  /\ UNCHANGED <<ingestVars, sample_pub, logHubVars>>

\* line 196: the client asks for the next item: task_done(), back to get()
sensor_updates_next(s) ==
  /\ sample_sub[s] = "yielded"
  /\ sample_sub' = [sample_sub EXCEPT ![s] = "waiting"]
  /\ UNCHANGED <<ingestVars, sample_queue, sample_pub, sample_recv, logHubVars>>

\* lines 197-203: the client cancels or disconnects
sensor_updates_cancel(s) ==
  /\ sample_sub[s] \in {"waiting", "yielded"}
  /\ sample_sub' = [sample_sub EXCEPT ![s] = "ended"]
  /\ UNCHANGED <<ingestVars, sample_queue, sample_pub, sample_recv, logHubVars>>

\* lines 199-203: an exception raised inside the while loop (by the await of
\* line 182 or thrown in at the yield of line 195) is caught outside the loop,
\* logged, and the generator returns
sensor_updates_error(s) ==
  /\ sample_sub[s] \in {"waiting", "yielded"}
  /\ sample_sub' = [sample_sub EXCEPT ![s] = "failed"]
  /\ UNCHANGED <<ingestVars, sample_queue, sample_pub, sample_recv, logHubVars>>

\* publish_sample as the hub sees it: a sample record is put on sample_queue
hub_publish_sample ==
  /\ Len(sample_pub) < MaxItems
  /\ \E sp \in {DeviceNumber(a) : a \in Addresses} :
       publish_sample_put([id |-> Len(sample_pub) + 1, device_sp_id |-> sp])
  /\ UNCHANGED <<ingestVars, sample_sub, sample_recv, logHubVars>>

\* ------------------------------------ web_backend.py / graphql_resolvers.py: logs
\* QueueLogHandler.emit (lines 34-49): log_queue.put_nowait(log_entry); on a
\* full queue put_nowait raises and handleError drops the entry
emit ==
  /\ Len(log_pub) < MaxItems
  /\ log_queue' = IF QueueFull(log_queue, log_queue_maxsize) THEN log_queue
                  ELSE Append(log_queue, Len(log_pub) + 1)
  /\ log_pub' = Append(log_pub, {s \in Subs : log_sub[s] \in {"waiting", "yielded"}})
  /\ UNCHANGED <<ingestVars, sample_queue, sampleHubVars, log_sub, log_recv>>

\* log_messages_subscription (lines 206-222)
log_messages_subscribe(s) ==
  /\ log_sub[s] = "new"
  /\ log_sub' = [log_sub EXCEPT ![s] = "waiting"]
  /\ UNCHANGED <<ingestVars, sample_queue, sampleHubVars, log_queue, log_pub, log_recv>>

log_messages_get(s) ==
  /\ log_sub[s] = "waiting"
  /\ log_queue # <<>>
  /\ log_recv' = [log_recv EXCEPT ![s] = Append(@, Head(log_queue))]
  /\ log_queue' = Tail(log_queue)
  /\ log_sub' = [log_sub EXCEPT ![s] = "yielded"]
  /\ UNCHANGED <<ingestVars, sample_queue, sampleHubVars, log_pub>>

log_messages_next(s) ==
  /\ log_sub[s] = "yielded"
  /\ log_sub' = [log_sub EXCEPT ![s] = "waiting"]
  /\ UNCHANGED <<ingestVars, sample_queue, sampleHubVars, log_queue, log_pub, log_recv>>

log_messages_cancel(s) ==
  /\ log_sub[s] \in {"waiting", "yielded"}
  /\ log_sub' = [log_sub EXCEPT ![s] = "ended"]
  /\ UNCHANGED <<ingestVars, sample_queue, sampleHubVars, log_queue, log_pub, log_recv>>

\* lines 218-222: an exception raised inside the while loop is caught outside
\* the loop, logged, and the generator returns
log_messages_error(s) ==
  /\ log_sub[s] \in {"waiting", "yielded"}
  /\ log_sub' = [log_sub EXCEPT ![s] = "failed"]
  /\ UNCHANGED <<ingestVars, sample_queue, sampleHubVars, log_queue, log_pub, log_recv>>

\* ------------------------------------ sp_ble.py: read_device_id on its own
\* the byte values a payload is made of, and the payloads read_gatt_char may
\* return
Bytes == {0, 1, 255}
Payloads == UNION {[1..n -> Bytes] : n \in 0..MaxPayload}

\* faulty variant of int_from_bytes: byteorder="big"
int_from_bytes_big(b) ==
  [hi |-> b[2] + 256 * b[1], lo |-> b[4] + 256 * b[3]]

\* line 28: int.from_bytes(b, byteorder="little") of four bytes, unsigned. The
\* number is held as its two 16-bit halves, hi * 65536 + lo, since it does not
\* fit the 32-bit signed integers of the model checker
int_from_bytes(b) ==
  [hi |-> b[3] + 256 * b[4], lo |-> b[1] + 256 * b[2]]

\* line 28: raw_val[:4]
first_four(raw_val) == SubSeq(raw_val, 1, 4)

\* read_device_id (lines 21-38) for the device at address a whose identity
\* characteristic returns raw_val: the number is decoded and the device added;
\* an error of the read, a short payload and an error of add_device are logged
read_device_id(a, raw_val) ==
  /\ \E fault \in {"none", "read", "add"} :
       LET sp_id == int_from_bytes(first_four(raw_val))
           res == IF fault = "read" THEN "err"
                  ELSE IF ~enough_data(Len(raw_val)) THEN "short"
                  ELSE IF fault = "add" THEN "err"
                  ELSE IF add_device_conflict(sp_id, a) THEN "conflict"
                  ELSE "ok"
       IN /\ devices' = IF res = "ok" THEN add_device_rows(sp_id, a) ELSE devices
          /\ reply' = [op |-> "read_device_id", args |-> <<a, raw_val>>, res |-> res]
  /\ UNCHANGED <<scanning, ads, put_tasks, advertisement_queue, loop, proc, calls,
                 samples, device_names, pub, phase, sample_queue, sampleHubVars,
                 logHubVars, now, conn, ready, worker>>

\* ------------------------------------- sql_model.py called with any arguments
\* the device numbers and names a caller may pass
DeviceNumbers == {DeviceNumber(a) : a \in Addresses}
Names == {"Garden", "Garden Shed"}

\* a call of the storage engine that is not made for an advertisement
DbCall(op, args, res) == [op |-> op, ev |-> 0, res |-> res, args |-> args]

\* SqlModel.add_device (lines 102-124)
add_device(sp_id, ble_id) ==
  /\ Len(calls) < MaxCalls
  /\ \E fault \in BOOLEAN :
       LET res == IF fault THEN "err"
                  ELSE IF add_device_conflict(sp_id, ble_id) THEN "conflict" ELSE "ok"
       IN /\ calls' = Append(calls, DbCall("add_device", <<sp_id, ble_id>>, res))
          /\ devices' = IF res = "ok" THEN add_device_rows(sp_id, ble_id) ELSE devices
  /\ UNCHANGED <<scanning, ads, put_tasks, advertisement_queue, loop, proc, samples,
                 device_names, pub, phase, sample_queue, sampleHubVars, logHubVars, apiVars>>

\* SqlModel.add_sample (lines 126-156)
add_sample(sp_id) ==
  /\ Len(calls) < MaxCalls
  /\ \E fault \in BOOLEAN :
       LET res == add_sample_result(sp_id, fault)
       IN /\ calls' = Append(calls, DbCall("add_sample", <<sp_id>>, res))
          /\ samples' = IF res = "ok" THEN add_sample_rows(sp_id, 0) ELSE samples
  /\ UNCHANGED <<scanning, ads, put_tasks, advertisement_queue, loop, proc, devices,
                 device_names, pub, phase, sample_queue, sampleHubVars, logHubVars, apiVars>>

\* SqlModel.update_device_name (lines 273-302): the device is looked up first
\* (line 285), then the upsert is executed and committed; a storage error of
\* the lookup or of the upsert is rolled back and raised again
update_device_name(sp_id, name) ==
  /\ Len(calls) < MaxCalls
  /\ \E fault \in BOOLEAN :
       LET res == IF fault THEN "err"
                  ELSE IF ~device_sp_id_exists(sp_id) THEN "reference" ELSE "ok"
       IN /\ calls' = Append(calls, DbCall("update_device_name", <<sp_id, name>>, res))
          /\ device_names' = IF res = "ok" THEN device_names_upsert(sp_id, name)
                             ELSE device_names
  /\ UNCHANGED <<scanning, ads, put_tasks, advertisement_queue, loop, proc, devices,
                 samples, pub, phase, sample_queue, sampleHubVars, logHubVars, apiVars>>

\* --------------------------------------- graphql_resolvers.py: the queries
\* faulty variant of ReadError: the exception is raised again
ReadErrorRaised(op, args, empty) ==
  [op |-> op, args |-> args, raised |-> TRUE, value |-> empty]

\* get_sensors_resolver lines 82-86, get_samples_resolver lines 107-109:
\* except Exception: the error is logged and [] is returned
ReadError(op, args, empty) ==
  [op |-> op, args |-> args, raised |-> FALSE, value |-> empty]

\* get_sensors_resolver lines 47-80: one Sensor per row of
\* get_all_sensors_with_names, with its entry of the latest-sample mapping m
Sensors(m) ==
  {[sp_id |-> r.sp_id, ble_id |-> r.ble_id, friendly_name |-> r.friendly_name,
    latest |-> IF r.sp_id \in DOMAIN m THEN m[r.sp_id].id ELSE 0] :
     r \in get_all_sensors_with_names}

\* get_sensors_resolver (lines 39-86); fault is the step that raises, if any:
\* get_db_from_info, get_all_sensors_with_names or
\* get_latest_sample_for_all_sensors; every call on a closed connection raises
get_sensors_resolver ==
  /\ \E fault \in {"none", "context", "sensors", "latest"} :
       IF fault # "none" \/ phase = "closed"
         THEN reply' = ReadError("sensors", <<>>, {})
         ELSE \E m \in LatestMaps :
                reply' = [op |-> "sensors", args |-> <<>>, raised |-> FALSE,
                          value |-> Sensors(m)]
  /\ UNCHANGED <<scanning, ads, put_tasks, advertisement_queue, loop, proc, calls,
                 devices, samples, device_names, pub, phase, sample_queue,
                 sampleHubVars, logHubVars, now, conn, ready, worker>>

\* get_samples_resolver (lines 88-109); fault is the step that raises, if any:
\* get_db_from_info or get_samples_for_export
get_samples_resolver(begin_dt, end_dt) ==
  /\ \E fault \in {"none", "context", "export"} :
       IF fault # "none" \/ phase = "closed"
         THEN reply' = ReadError("samples", <<begin_dt, end_dt>>, <<>>)
         ELSE \E rows \in ExportLists(begin_dt, end_dt) :
                reply' = [op |-> "samples", args |-> <<begin_dt, end_dt>>,
                          raised |-> FALSE, value |-> rows]
  /\ UNCHANGED <<scanning, ads, put_tasks, advertisement_queue, loop, proc, calls,
                 devices, samples, device_names, pub, phase, sample_queue,
                 sampleHubVars, logHubVars, now, conn, ready, worker>>

\* -------------------------------------- graphql_resolvers.py: the mutation
\* update_sensor_name_resolver (lines 113-160): db.update_device_name, then the
\* sensor is read back with its latest sample and returned; a ValueError and
\* any other error become a GraphQLError. The calls of the API layer are not
\* recorded in calls. fault is the await that fails, if any
update_sensor_name_resolver(sp_id, name) ==
  /\ \E fault \in {"none", "update", "read"} :
       LET res == IF fault = "update" \/ phase = "closed" THEN "err"
                  ELSE IF ~device_sp_id_exists(sp_id) THEN "reference" ELSE "ok"
       IN /\ device_names' = IF res = "ok" THEN device_names_upsert(sp_id, name)
                             ELSE device_names
          /\ \E m \in LatestMaps :
               reply' =
                 IF res = "reference" THEN [op |-> "rename", error |-> "reference"]
                 ELSE IF res = "err" \/ fault = "read"
                   THEN [op |-> "rename", error |-> "internal"]
                 ELSE [op |-> "rename",
                       value |-> [sp_id |-> sp_id, friendly_name |-> name,
                                  latest |-> IF sp_id \in DOMAIN m THEN m[sp_id].id
                                             ELSE 0]]
  /\ UNCHANGED <<scanning, ads, put_tasks, advertisement_queue, loop, proc, calls,
                 devices, samples, pub, phase, sample_queue, sampleHubVars,
                 logHubVars, now, conn, ready, worker>>

\* ----------------------------- sql_model.py: the writes, one await at a time
\* self.conn is one connection shared by the consumer and the API resolvers
\* (web_backend lifespan line 80, get_db_from_info); each await of a writing
\* method is a point where the other coroutine can run
\* the writing calls each coroutine makes: the consumer registers devices and
\* stores samples, the API names the registered device
WriterOps(w) ==
  IF w = "consumer"
    THEN {[op |-> "add_device", args |-> <<sp_id, ble_id>>] :
            sp_id \in DeviceNumbers, ble_id \in Addresses}
         \cup {[op |-> "add_sample", args |-> <<sp_id>>] : sp_id \in DeviceNumbers}
    ELSE {[op |-> "update_device_name", args |-> <<1, "Garden">>]}

\* the outcome of the statement of a writing method (add_device line 111,
\* add_sample lines 134-137, update_device_name lines 285-288)
StatementResult(c, fault) ==
  IF fault THEN "err"
  ELSE IF c.op = "add_device"
    THEN (IF add_device_conflict(c.args[1], c.args[2]) THEN "conflict" ELSE "ok")
  ELSE IF c.op = "add_sample" THEN add_sample_result(c.args[1], FALSE)
  ELSE (IF ~device_sp_id_exists(c.args[1]) THEN "reference" ELSE "ok")

\* the tables as the connection sees them
Tables == [devices |-> devices, samples |-> samples, device_names |-> device_names]

\* await cursor.execute(...) of add_device (111), add_sample (134), and of
\* update_device_name (288) after its lookup (285): the row is written inside
\* the transaction of the connection, which is begun if none is open; a failed
\* statement writes nothing and leads to the except clause. The ValueError of
\* the lookup leaves update_device_name without a rollback
conn_execute(w, c) ==
  /\ conn.pos[w].at = "idle"
  /\ Len(calls) + Cardinality({v \in Writers : conn.pos[v].at # "idle"}) < MaxCalls
  /\ \E fault \in BOOLEAN :
       LET res == StatementResult(c, fault)
       IN IF res = "ok"
            THEN /\ devices' = IF c.op = "add_device"
                                 THEN add_device_rows(c.args[1], c.args[2]) ELSE devices
                 /\ samples' = IF c.op = "add_sample"
                                 THEN add_sample_rows(c.args[1], 0) ELSE samples
                 /\ device_names' = IF c.op = "update_device_name"
                                      THEN device_names_upsert(c.args[1], c.args[2])
                                      ELSE device_names
                 /\ conn' = [open |-> TRUE,
                             snap |-> IF conn.open THEN conn.snap ELSE Tables,
                             pos |-> [conn.pos EXCEPT ![w] =
                                        [at |-> "commit", op |-> c.op,
                                         args |-> c.args, res |-> "ok"]]]
                 /\ calls' = calls
            ELSE /\ UNCHANGED <<devices, samples, device_names>>
                 /\ IF c.op = "update_device_name" /\ res = "reference"
                      THEN /\ calls' = Append(calls, DbCall(c.op, c.args, res))
                           /\ conn' = conn
                      ELSE /\ calls' = calls
                           /\ conn' = [conn EXCEPT !.pos[w] =
                                         [at |-> "rollback", op |-> c.op,
                                          args |-> c.args, res |-> res]]
  /\ UNCHANGED <<scanning, ads, put_tasks, advertisement_queue, loop, proc, pub,
                 phase, sample_queue, sampleHubVars, logHubVars, now, reply, ready, worker>>

\* await self.conn.commit() (112, 138, 289): everything written on the
\* connection since the transaction began becomes permanent and the method
\* returns; a commit that fails leads to the except clause
conn_commit(w) ==
  /\ conn.pos[w].at = "commit"
  /\ \E fault \in BOOLEAN :
       IF fault
         THEN /\ conn' = [conn EXCEPT !.pos[w].at = "rollback", !.pos[w].res = "err"]
              /\ calls' = calls
         ELSE /\ conn' = [open |-> FALSE, snap |-> NoSnapshot,
                          pos |-> [conn.pos EXCEPT ![w] = Idle]]
              /\ calls' = Append(calls, DbCall(conn.pos[w].op, conn.pos[w].args, "ok"))
  /\ UNCHANGED <<scanning, ads, put_tasks, advertisement_queue, loop, proc, devices,
                 samples, device_names, pub, phase, sample_queue, sampleHubVars,
                 logHubVars, now, reply, ready, worker>>

\* await self.conn.rollback() in the except clauses (115, 119, 140, 149, 292):
\* everything written on the connection since the transaction began is undone,
\* and the method raises
conn_rollback(w) ==
  /\ conn.pos[w].at = "rollback"
  /\ devices' = IF conn.open THEN conn.snap.devices ELSE devices
  /\ samples' = IF conn.open THEN conn.snap.samples ELSE samples
  /\ device_names' = IF conn.open THEN conn.snap.device_names ELSE device_names
  /\ conn' = [open |-> FALSE, snap |-> NoSnapshot, pos |-> [conn.pos EXCEPT ![w] = Idle]]
  /\ calls' = Append(calls, DbCall(conn.pos[w].op, conn.pos[w].args, conn.pos[w].res))
  /\ UNCHANGED <<scanning, ads, put_tasks, advertisement_queue, loop, proc, pub,
                 phase, sample_queue, sampleHubVars, logHubVars, now, reply, ready, worker>>

\* ------------------------------------------------------------ specifications
\* the ingestion pipeline: producer, consumer, resolver, storage, publishing,
\* until the consumer is cancelled
Next ==
  \/ \E ad \in AdInputs : handle_advertisement(ad)
  \/ advertisement_queue_put
  \/ advertisement_loop_get
  \/ advertisement_loop_sleep
  \/ \E e \in Events : StepDeviceExists(e)
  \/ \E e \in Events : StepScannerStop(e)
  \/ \E e \in Events : StepRead(e)
  \/ \E e \in Events : StepAddDevice(e)
  \/ \E e \in Events : StepScannerStart(e)
  \/ \E e \in Events : StepGetSpId(e)
  \/ \E e \in Events : StepAddSample(e)
  \/ \E e \in Events : on_sample_callback(e)
  \/ \E e \in Events : publish_sample(e)
  \/ shutdown_cancel

Spec == Init /\ [][Next]_vars

\* the pipeline started on a database that already holds a registered device
RestartSpec == RestartInit /\ [][Next]_vars

\* the pipeline with the rest of the lifespan exit: after the consumer has been
\* cancelled the scanner is stopped and the storage connection closed
LifecycleNext ==
  \/ Next
  \/ shutdown_stop_scanner
  \/ shutdown_close_db

LifecycleSpec == Init /\ [][LifecycleNext]_vars

\* the application from the entry of lifespan: the startup steps, then the
\* pipeline and the lifespan exit
StartupNext ==
  \/ startup_create_db
  \/ startup_start_scanner
  \/ LifecycleNext

StartupSpec == Boot /\ [][StartupNext]_vars

\* the steps of the consumer task: the event loop runs every ready task, and the
\* awaited storage and radio calls return
ConsumerStep ==
  \/ advertisement_loop_get
  \/ advertisement_loop_sleep
  \/ \E e \in Events : StepDeviceExists(e)
  \/ \E e \in Events : StepScannerStop(e)
  \/ \E e \in Events : StepRead(e)
  \/ \E e \in Events : StepAddDevice(e)
  \/ \E e \in Events : StepScannerStart(e)
  \/ \E e \in Events : StepGetSpId(e)
  \/ \E e \in Events : StepAddSample(e)

FairSpec == Spec /\ WF_vars(ConsumerStep) /\ WF_vars(advertisement_queue_put)

\* the steps of the consumer task other than the return of the identity read:
\* read_device_id awaits BleakClient(device) and read_gatt_char (lines 25-26)
\* as they are, with no timeout argument and no asyncio.wait_for around them
ConsumerStepButRead ==
  \/ advertisement_loop_get
  \/ advertisement_loop_sleep
  \/ \E e \in Events : StepDeviceExists(e)
  \/ \E e \in Events : StepScannerStop(e)
  \/ \E e \in Events : StepAddDevice(e)
  \/ \E e \in Events : StepScannerStart(e)
  \/ \E e \in Events : StepGetSpId(e)
  \/ \E e \in Events : StepAddSample(e)

\* the pipeline when the peer of an identity read may never answer: every ready
\* task runs and the storage and scanner calls return, the read need not
UnansweredSpec == Spec /\ WF_vars(ConsumerStepButRead) /\ WF_vars(advertisement_queue_put)

\* the sample feed of the broadcast hub
SampleHubNext ==
  \/ hub_publish_sample
  \/ \E s \in Subs : sensor_updates_subscribe(s)
  \/ \E s \in Subs : sensor_updates_get(s)
  \/ \E s \in Subs : sensor_updates_next(s)
  \/ \E s \in Subs : sensor_updates_cancel(s)
  \/ \E s \in Subs : sensor_updates_error(s)

SampleHubSpec == Init /\ [][SampleHubNext]_vars

\* the log feed of the broadcast hub
LogHubNext ==
  \/ emit
  \/ \E s \in Subs : log_messages_subscribe(s)
  \/ \E s \in Subs : log_messages_get(s)
  \/ \E s \in Subs : log_messages_next(s)
  \/ \E s \in Subs : log_messages_cancel(s)
  \/ \E s \in Subs : log_messages_error(s)

LogHubSpec == Init /\ [][LogHubNext]_vars

\* the publishers of both feeds with subscriptions that do not keep up: a
\* sample subscription takes one sample and asks for no other, or disconnects;
\* no log subscription reads
PublishNext ==
  \/ hub_publish_sample
  \/ emit
  \/ \E s \in Subs : sensor_updates_subscribe(s)
  \/ \E s \in Subs : sensor_updates_get(s)
  \/ \E s \in Subs : sensor_updates_cancel(s)

PublishSpec == Init /\ [][PublishNext]_vars

\* the storage engine under any sequence of calls of its callers
StorageNext ==
  \/ \E sp_id \in DeviceNumbers, ble_id \in Addresses : add_device(sp_id, ble_id)
  \/ \E sp_id \in DeviceNumbers : add_sample(sp_id)
  \/ \E sp_id \in DeviceNumbers, name \in Names : update_device_name(sp_id, name)

StorageSpec == Init /\ [][StorageNext]_vars

\* the pipeline on a database that holds a registered device, while the API
\* gives that device a name
RenameNext ==
  \/ Next
  \/ update_sensor_name_resolver(1, "Garden")

RenameSpec == RestartInit /\ [][RenameNext]_vars

\* the writes of the consumer and of the API on the shared connection, each
\* await a step of its own, on a database that holds a registered device
TxNext ==
  \/ \E w \in Writers : \E c \in WriterOps(w) : conn_execute(w, c)
  \/ \E w \in Writers : conn_commit(w)
  \/ \E w \in Writers : conn_rollback(w)

TxSpec == RestartInit /\ [][TxNext]_vars

\* the read queries of the API: samples are stored until the application shuts
\* down and closes the storage connection, and the queries are made in between
\* and after
ReadNext ==
  \/ \E sp_id \in DeviceNumbers : phase = "running" /\ add_sample(sp_id)
  \/ get_sensors_resolver
  \/ \E begin_dt, end_dt \in DateTimes : get_samples_resolver(begin_dt, end_dt)
  \/ shutdown_cancel
  \/ shutdown_stop_scanner
  \/ shutdown_close_db

ReadSpec == RestartInit /\ [][ReadNext]_vars

\* read_device_id called, as process_advertisement_event calls it (lines
\* 78-84), for the device at address 1 while it is not known, with any payload
DecodeNext ==
  \E raw_val \in Payloads : ~device_exists(1) /\ read_device_id(1, raw_val)

DecodeSpec == Init /\ [][DecodeNext]_vars

\* the pipeline as the event loop and the thread of the connection schedule
\* it, for the advertisements of the registered sensor
OrderNext ==
  \/ \E kind \in {"full", "partial"} : handle_advertisement([addr |-> 1, kind |-> kind])
  \/ advertisement_queue_put
  \/ loop_get
  \/ worker_run
  \/ loop_resubmit
  \/ \E e \in Events : loop_device_exists(e)
  \/ \E e \in Events : loop_get_sp_id(e)
  \/ \E e \in Events : loop_add_sample(e)
  \/ \E e \in Events : loop_on_sample_callback(e)
  \/ \E e \in Events : loop_publish_sample_start(e)
  \/ \E e \in Events : loop_publish_sample_put(e)

OrderSpec == RestartInit /\ [][OrderNext]_vars

\* the scheduled pipeline with the lifespan exit
ShutdownNext ==
  \/ OrderNext
  \/ \E e \in Events : loop_publish_sample_failed(e)
  \/ loop_shutdown_cancel
  \/ loop_consumer_cancelled
  \/ loop_shutdown_stop_scanner
  \/ scanner_stop_returns
  \/ loop_shutdown_close_db
  \/ loop_shutdown_closed

ShutdownSpec == RestartInit /\ [][ShutdownNext]_vars

\* the store after earlier runs registered two devices
QueryInit == InitWith({[sp_id |-> 1, ble_id |-> 1], [sp_id |-> 2, ble_id |-> 2]})

\* the latest-sample query: samples are stored at the times the clock shows and
\* the query is made in between
LatestNext ==
  \/ clock_change
  \/ \E sp_id \in DeviceNumbers : add_sample(sp_id)
  \/ get_latest_sample_for_all_sensors

LatestSpec == QueryInit /\ [][LatestNext]_vars

\* the export query: samples are stored, the first device is renamed, and the
\* query is made in between with any range
ExportNext ==
  \/ clock_change
  \/ \E sp_id \in DeviceNumbers : add_sample(sp_id)
  \/ \E name \in Names : update_device_name(1, name)
  \/ \E begin_dt, end_dt \in DateTimes : get_samples_for_export(begin_dt, end_dt)

ExportSpec == QueryInit /\ [][ExportNext]_vars

\* ------------------------------------------------------------------ claims
\* indexes of the calls of operation op made for event e
CallsOf(e, op) == {i \in DOMAIN calls : calls[i].ev = e /\ calls[i].op = op}
\* indexes of the calls of operation op made for any event of address a
CallsFor(a, op) == {i \in DOMAIN calls : calls[i].op = op /\ ads[calls[i].ev].addr = a}
AddrOf(i) == ads[calls[i].ev].addr
Known(a) == \E d \in devices : d.ble_id = a
\* an identity read that raised or returned fewer than 4 bytes
ReadFailed(i) == calls[i].op = "read" /\ calls[i].res \in {"err", "len3"}
\* a resolution attempt that did not register the device
AttemptFailed(i) ==
  \/ ReadFailed(i)
  \/ calls[i].op = "add_device" /\ calls[i].res # "ok"
StopOk(i) == calls[i].op = "stop" /\ calls[i].res = "ok"
Resolving(e) == proc[e] \in {"stop", "read", "add", "start"}

\* C1, as stated: for one address there is at most one identity-read attempt
\* and at most one resume-scan call in a run, whatever the reads return.
C1_Original ==
  \A a \in Addresses :
    /\ Cardinality(CallsFor(a, "read")) <= 1
    /\ Cardinality(CallsFor(a, "start")) <= 1

\* C1, amended: each advertisement of an unregistered address makes at most one
\* identity-read attempt and one resume-scan call, exactly one of each once its
\* resolution has completed after a successful pause; no read is attempted for
\* an address after a read of it has registered the device. So an address sees
\* one read attempt per advertisement processed while it is unregistered: one
\* if the first attempt registers it, one more for every attempt that failed.
C1_ReadAndResumePerAttempt ==
  /\ \A e \in Events :
       LET reads == Cardinality(CallsOf(e, "read"))
           starts == Cardinality(CallsOf(e, "start"))
       IN /\ reads <= 1
          /\ starts <= 1
          /\ (proc[e] = "done" /\ \E i \in DOMAIN calls : StopOk(i) /\ calls[i].ev = e)
               => (reads = 1 /\ starts = 1)
  /\ \A i \in DOMAIN calls :
       (calls[i].op = "add_device" /\ calls[i].res = "ok")
         => \A j \in (i + 1)..Len(calls) :
              AddrOf(j) = AddrOf(i) => calls[j].op \notin {"stop", "read"}
  /\ \A a \in Addresses :
       Cardinality(CallsFor(a, "read"))
         <= 1 + Cardinality({i \in DOMAIN calls : AttemptFailed(i) /\ AddrOf(i) = a})

\* two advertisements of one new address: the first read failed and the scanner
\* was resumed, the second read registered the device and the scanner was resumed
C1_Witness ==
  /\ Len(ads) = 2 /\ ads[1].addr = ads[2].addr
  /\ \E i \in CallsOf(1, "read") : ReadFailed(i)
  /\ CallsOf(1, "start") # {}
  /\ \E i \in CallsOf(2, "add_device") : calls[i].res = "ok"
  /\ CallsOf(2, "start") # {}
  /\ proc[2] = "done"

\* C2: after scanner.stop() has returned for an event, scanner.start() is called
\* exactly once for it before the consumer dequeues the next event, whether the
\* read raised, was short, or add_device succeeded or failed.
C2_ResumeBeforeNextGet ==
  \A i \in DOMAIN calls :
    StopOk(i) =>
      LET e == calls[i].ev
          starts == CallsOf(e, "start")
      IN /\ Cardinality(starts) <= 1
         /\ \A j \in starts : j > i
         /\ proc[e] = "done" => Cardinality(starts) = 1
         /\ \A k \in (i + 1)..Len(calls) :
              calls[k].op = "get" => \E j \in starts : j < k

\* the first resolution ended with a failed read, the second with add_device,
\* each was resumed, and the consumer has dequeued a next event after the first
C2_Witness ==
  /\ \E i \in CallsOf(1, "read") : ReadFailed(i)
  /\ \E i \in CallsOf(1, "start"), k \in CallsOf(2, "get") : i < k
  /\ CallsOf(2, "add_device") # {}
  /\ CallsOf(2, "start") # {}

\* C3: a sample published while two subscriptions are both open, and since
\* taken from the queue, has been received by each of the two that is still
\* open; and the samples both have received came in the same order.
C3_BothSubscribersReceive ==
  \A s1, s2 \in Subs :
    /\ \A i \in DOMAIN sample_pub :
         (s1 # s2 /\ {s1, s2} \subseteq sample_pub[i]
            /\ sample_sub[s1] \in {"waiting", "yielded"}
            /\ sample_sub[s2] \in {"waiting", "yielded"}
            /\ \A k \in DOMAIN sample_queue : sample_queue[k].id # i)
           => /\ i \in Range(sample_recv[s1])
              /\ i \in Range(sample_recv[s2])
    /\ \A k1, k2 \in DOMAIN sample_recv[s1], m1, m2 \in DOMAIN sample_recv[s2] :
         (sample_recv[s1][k1] = sample_recv[s2][m1]
            /\ sample_recv[s1][k2] = sample_recv[s2][m2] /\ k1 < k2)
           => m1 < m2

\* C4: every sample a subscription has received was published while that
\* subscription was open.
C4_OnlySamplesAfterSubscribing ==
  \A s \in Subs : \A k \in DOMAIN sample_recv[s] :
    s \in sample_pub[sample_recv[s][k]]

\* C5: a log entry emitted while a subscription was open, and since taken from
\* the queue, has been received by that subscription if it is still open.
C5_EveryLogSubscriberReceives ==
  \A s \in Subs : \A i \in DOMAIN log_pub :
    (s \in log_pub[i] /\ log_sub[s] \in {"waiting", "yielded"}
       /\ i \notin Range(log_queue))
      => i \in Range(log_recv[s])

\* C6: the events are dequeued in the order handle_advertisement saw them (the
\* k-th get returns event k); the calls made for one event follow its get and
\* all come before the next get; at most one event is in processing; and a
\* pending put is never held back by the queue.
C6_StrictOrderOneAtATime ==
  /\ \A i \in 1..(Len(calls) - 1) : calls[i].ev <= calls[i + 1].ev
  /\ \A i \in DOMAIN calls :
       IF calls[i].op = "get"
         THEN /\ calls[i].ev = Cardinality({j \in 1..i : calls[j].op = "get"})
              /\ i > 1 => calls[i - 1].ev < calls[i].ev
         ELSE i > 1 /\ calls[i - 1].ev = calls[i].ev
  /\ Cardinality({e \in Events : Active(e)}) <= 1
  /\ (loop = "get" \/ loop = "sleep") => \A e \in Events : ~Active(e)
  /\ put_tasks # <<>> => CanPut

\* two events were queued together, the first went through a resolution, and
\* the second has been dequeued after it
C6_Witness ==
  /\ \E i \in CallsOf(1, "start"), k \in CallsOf(2, "get") : i < k
  /\ \E i \in CallsOf(1, "stop") : StopOk(i)
  /\ proc[2] = "done"

\* C7: while the consumer is not cancelled it does not stop, and every event
\* handed to the queue is eventually dequeued and its processing ends, whatever
\* errors the events before it ran into.
Processed(e) == proc[e] \in {"done", "raised"}
C8_OneResolutionInFlight ==
  /\ Cardinality({e \in Events : Resolving(e)}) <= 1
  /\ \A i \in DOMAIN calls :
       StopOk(i) =>
         \A j \in (i + 1)..Len(calls) :
           (calls[j].op \in {"stop", "read"} /\ calls[j].ev # calls[i].ev)
             => \E k \in (i + 1)..(j - 1) :
                  calls[k].op = "start" /\ calls[k].ev = calls[i].ev

\* a resolution is reading while another advertisement of an unregistered
\* address waits in the queue
C8_Witness ==
  /\ proc[1] = "read"
  /\ advertisement_queue = <<2>>
  /\ ads[2].kind = "full"
  /\ ~Known(ads[2].addr)

\* C9: a registered address stays registered with the same device number, and
\* no event of an address that is already registered enters pause-scan, the
\* identity read or add_device.
C9_KnownIsTerminal ==
  [][/\ devices \subseteq devices'
     /\ \A d1, d2 \in devices' : d1.ble_id = d2.ble_id => d1.sp_id = d2.sp_id
     /\ \A e \in Events :
          (e \in DOMAIN ads /\ Known(ads[e].addr) /\ proc'[e] # proc[e])
            => proc'[e] \notin {"stop", "read", "add"}]_vars

\* an advertisement of an address registered earlier in the run is at add_sample
C9_Witness ==
  \E e \in Events :
    /\ proc[e] = "add_sample"
    /\ \E i \in DOMAIN calls :
         calls[i].op = "add_device" /\ calls[i].res = "ok" /\ AddrOf(i) = ads[e].addr

\* C10: after an identity read that raised or returned fewer than 4 bytes no
\* add_device is called for that event; an address is registered only through a
\* successful add_device; and an event of an address that is not registered,
\* once its device_exists lookup has returned, goes on to pause-scan.
C10_FailedReadLeavesUnknown ==
  /\ \A i \in DOMAIN calls :
       ReadFailed(i) =>
         /\ \A j \in DOMAIN calls :
              calls[j].ev = calls[i].ev => calls[j].op # "add_device"
         /\ proc[calls[i].ev] # "add"
  /\ \A a \in Addresses :
       Known(a) <=> \E i \in DOMAIN calls :
                      calls[i].op = "add_device" /\ calls[i].res = "ok" /\ AddrOf(i) = a
  /\ \A i \in DOMAIN calls :
       (calls[i].op = "device_exists" /\ calls[i].res # "err"
          /\ ~\E j \in 1..i : /\ calls[j].op = "add_device" /\ calls[j].res = "ok"
                              /\ AddrOf(j) = AddrOf(i))
         => /\ calls[i].res = "false"
            /\ \/ proc[calls[i].ev] \in {"stop", "cancelled"}
               \/ \E j \in (i + 1)..Len(calls) :
                    calls[j].op = "stop" /\ calls[j].ev = calls[i].ev

\* the first read of an address failed, the address is still not registered,
\* and its next advertisement is in a new identity read
C10_Witness ==
  /\ Len(ads) = 2 /\ ads[1].addr = ads[2].addr
  /\ \E i \in CallsOf(1, "read") : ReadFailed(i)
  /\ ~Known(ads[1].addr)
  /\ proc[2] = "read"

\* ------------------------------------------------- claims on stored samples
RowsOf(e) == {k \in DOMAIN samples : samples[k].ev = e}
RowsFor(sp) == {k \in DOMAIN samples : samples[k].device_sp_id = sp}
RecordsOf(e) == {k \in DOMAIN sample_queue : sample_queue[k].id = e}
\* the device_exists lookup of event e found its address registered
FoundKnown(e) == \E i \in CallsOf(e, "device_exists") : calls[i].res = "true"
AddSampleOk(e) == \E i \in CallsOf(e, "add_sample") : calls[i].res = "ok"
AddSampleFailed(e) == \E i \in CallsOf(e, "add_sample") : calls[i].res # "ok"
NoCallFailed(e) == \A i \in DOMAIN calls : calls[i].ev = e => calls[i].res # "err"

\* C11: an event whose on_sample / publish_sample task exists, or whose record
\* is on the sample queue, has a successful add_sample call and its row in
\* table samples, for the device the record names; an event without a
\* successful add_sample has no such task and no record.
C11_PersistedBeforePublished ==
  /\ \A e \in Events :
       (pub[e] # "none" \/ RecordsOf(e) # {})
         => /\ AddSampleOk(e)
            /\ RowsOf(e) # {}
            /\ \A k \in RecordsOf(e) : \A j \in RowsOf(e) :
                 samples[j].device_sp_id = sample_queue[k].device_sp_id
  /\ \A e \in Events : Cardinality(RecordsOf(e)) <= 1
  /\ \A k \in DOMAIN sample_queue : sample_queue[k].id \in DOMAIN ads

\* the record of a stored sample is on the sample queue, and an event whose
\* add_sample failed has ended without a record
C11_Witness ==
  \E e1, e2 \in Events :
    /\ RecordsOf(e1) # {} /\ RowsOf(e1) # {}
    /\ AddSampleFailed(e2) /\ proc[e2] = "done" /\ pub[e2] = "none"

\* an advertisement carrying both readings whose address was found registered,
\* processed to the end with no storage call failing
StoredCase(e) ==
  /\ e \in DOMAIN ads
  /\ has_readings(ads[e].kind)
  /\ FoundKnown(e)
  /\ proc[e] = "done"
  /\ NoCallFailed(e)

\* C12: every such advertisement has exactly one row in table samples, no
\* event has more than one row, and the rows of a device are as many as the
\* such advertisements processed for it.
C12_OneSamplePerReading ==
  /\ \A e \in Events : StoredCase(e) => Cardinality(RowsOf(e)) = 1
  /\ \A e \in Events : Cardinality(RowsOf(e)) <= 1
  /\ \A a \in Addresses :
       Cardinality(RowsFor(DeviceNumber(a)))
         = Cardinality({e \in Events : StoredCase(e)
                                         /\ DeviceNumber(ads[e].addr) = DeviceNumber(a)})

\* two advertisements of one registered device, the second a duplicate of the
\* first, have been processed while the first one's record is not published
\* yet: the device has two rows
C12_Witness ==
  /\ Len(ads) = 2 /\ ads[1] = ads[2]
  /\ StoredCase(1) /\ StoredCase(2)
  /\ pub[1] \in {"callback", "lookup"}
  /\ Cardinality(RowsFor(DeviceNumber(ads[1].addr))) = 2

\* C13: an advertisement without both readings whose address was found
\* registered has no row, no on_sample task and no record, and no scanner or
\* radio call is made for it; the scanner state changes only in the pause-scan
\* and resume-scan steps of a resolution.
C13_AbsentReadingNoSample ==
  \A e \in Events :
    (e \in DOMAIN ads /\ ads[e].kind = "partial" /\ FoundKnown(e))
      => /\ RowsOf(e) = {}
         /\ pub[e] = "none"
         /\ RecordsOf(e) = {}
         /\ \A i \in DOMAIN calls :
              calls[i].ev = e => calls[i].op \in {"get", "device_exists", "get_device_sp_id"}
         /\ proc[e] \in {"get_sp_id", "done", "cancelled"}

\* an advertisement without a reading, of a registered address, was processed
\* to the end while the scanner is running, after a sample of that address
\* had been stored
C13_Witness ==
  /\ Len(ads) = 2
  /\ ads[2].kind = "partial" /\ FoundKnown(2) /\ proc[2] = "done"
  /\ CallsOf(2, "get_device_sp_id") # {}
  /\ RowsOf(1) # {}
  /\ scanning

\* C14: an event whose add_sample failed has no row, no on_sample task and no
\* record, has exactly one add_sample call, and has ended; the call that
\* follows the failed one is the consumer's get of the next event, and until
\* then the consumer is at its get (or was cancelled by the shutdown).
C14_FailedSampleDropped ==
  \A i \in DOMAIN calls :
    (calls[i].op = "add_sample" /\ calls[i].res # "ok")
      => LET e == calls[i].ev
         IN /\ RowsOf(e) = {}
            /\ pub[e] = "none"
            /\ RecordsOf(e) = {}
            /\ Cardinality(CallsOf(e, "add_sample")) = 1
            /\ proc[e] = "done"
            /\ IF i < Len(calls)
                 THEN calls[i + 1].op = "get" /\ calls[i + 1].ev = e + 1
                 ELSE loop = "get" \/ phase # "running"

\* add_sample failed for the first event, and the second event was dequeued
\* and its sample stored
C14_Witness ==
  /\ AddSampleFailed(1)
  /\ CallsOf(2, "get") # {}
  /\ AddSampleOk(2) /\ RowsOf(2) # {}

\* --------------------------------------------------- claims on the feeds
Open(st) == st \in {"waiting", "yielded"}
Received(recv) == UNION {Range(recv[s]) : s \in Subs}

\* C15: whatever the subscriptions do, a publisher that has an item can put it
\* at once: sample_queue.put never finds the queue full, and neither put drops
\* or holds back an item (every item published is on its queue or was taken
\* from it by a subscription).
C15_PublishNeverWaits ==
  /\ ~SampleQueueFull
  /\ Len(sample_pub) < MaxItems => ENABLED hub_publish_sample
  /\ Len(log_pub) < MaxItems => ENABLED emit
  /\ {sample_queue[k].id : k \in DOMAIN sample_queue} \cup Received(sample_recv)
       = DOMAIN sample_pub
  /\ Range(log_queue) = DOMAIN log_pub

\* one subscription has stopped reading after its first sample, another has
\* disconnected, no log subscription reads, and a sample and two log entries
\* published after that are on their queues
C15_Witness ==
  /\ sample_sub[1] = "yielded" /\ sample_sub[2] = "ended"
  /\ Len(sample_recv[1]) = 1
  /\ sample_queue # <<>>
  /\ \A k \in DOMAIN sample_queue :
       /\ sample_queue[k].id > sample_recv[1][1]
       /\ 2 \notin sample_pub[sample_queue[k].id]
  /\ Len(log_queue) >= 2

\* C16: after a subscription has been cancelled, every sample published from
\* then on while another subscription is open, and since taken from the
\* queue, has been received by that subscription as long as it stays open (no
\* subscription having ended on an error).
C16_OthersKeepReceiving ==
  \A c, s \in Subs : \A j, i \in DOMAIN sample_pub :
    (/\ c # s /\ j < i
     /\ c \in sample_pub[j] /\ c \notin sample_pub[i] /\ sample_sub[c] = "ended"
     /\ s \in sample_pub[j] /\ s \in sample_pub[i] /\ Open(sample_sub[s])
     /\ \A t \in Subs : sample_sub[t] # "failed"
     /\ i \notin {sample_queue[k].id : k \in DOMAIN sample_queue})
      => i \in Range(sample_recv[s])

\* C17: no subscription of either feed has ended on an error raised inside
\* its loop: a subscription that is over was cancelled.
C17_FeedEndsOnlyOnCancel ==
  \A s \in Subs : sample_sub[s] # "failed" /\ log_sub[s] # "failed"

\* ------------------------------------------- claims on the storage engine
\* the step is a call of op on the storage engine
IsDbCall(op) ==
  /\ Len(calls') = Len(calls) + 1
  /\ calls'[Len(calls')].op = op
  /\ calls'[Len(calls')].ev = 0
DuplicateKey(sp_id, ble_id) == \E d \in devices : d.sp_id = sp_id \/ d.ble_id = ble_id
RenamesOk(sp_id) ==
  {i \in DOMAIN calls : /\ calls[i].op = "update_device_name" /\ calls[i].res = "ok"
                        /\ calls[i].args[1] = sp_id}
Last(S) == CHOOSE i \in S : \A j \in S : j <= i

\* C18: in every state no two rows of devices share sp_id or ble_id; an
\* add_device whose sp_id or ble_id is already in the table fails (with the
\* conflict error when the storage answers) and leaves the table as it was,
\* the conflict error is raised in no other case, and a successful add_device
\* adds exactly the row asked for.
C18_AddDeviceConflict ==
  /\ [](\A d1, d2 \in devices :
          (d1.sp_id = d2.sp_id \/ d1.ble_id = d2.ble_id) => d1 = d2)
  /\ [][IsDbCall("add_device") =>
          LET c == calls'[Len(calls')]
              dup == DuplicateKey(c.args[1], c.args[2])
          IN /\ dup => c.res \in {"conflict", "err"}
             /\ c.res = "conflict" => dup
             /\ c.res # "ok" => devices' = devices
             /\ c.res = "ok" =>
                  devices' = devices \cup {[sp_id |-> c.args[1], ble_id |-> c.args[2]]}]_vars

\* device 1 is registered at address 1; add_device of the same number at
\* another address and of another number at the same address both failed
C18_Witness ==
  /\ Len(calls) = 3
  /\ devices = {[sp_id |-> 1, ble_id |-> 1]}
  /\ calls[2].op = "add_device" /\ calls[2].args = <<1, 2>> /\ calls[2].res = "conflict"
  /\ calls[3].op = "add_device" /\ calls[3].args = <<2, 1>> /\ calls[3].res = "conflict"

\* C19: in every state each row of samples references a registered device;
\* an add_sample for an sp_id that is not registered fails (with the reference
\* error when the storage answers) and leaves table samples as it was.
C19_SampleNeedsDevice ==
  /\ [](\A k \in DOMAIN samples :
          \E d \in devices : d.sp_id = samples[k].device_sp_id)
  /\ [][IsDbCall("add_sample") =>
          LET c == calls'[Len(calls')]
              registered == \E d \in devices : d.sp_id = c.args[1]
          IN /\ ~registered => (c.res \in {"reference", "err"} /\ samples' = samples)
             /\ c.res = "reference" => ~registered
             /\ c.res # "ok" => samples' = samples]_vars

\* add_sample for device 1 failed before the device was registered and stored
\* a row after it was
C19_Witness ==
  /\ Len(calls) = 3
  /\ calls[1].op = "add_sample" /\ calls[1].args = <<1>> /\ calls[1].res = "reference"
  /\ calls[2].op = "add_device" /\ calls[2].res = "ok" /\ calls[2].args[1] = 1
  /\ calls[3].op = "add_sample" /\ calls[3].args = <<1>> /\ calls[3].res = "ok"
  /\ Len(samples) = 1

\* C20: a device that was renamed has exactly one row in device_names, holding
\* the name of the last successful update_device_name, and one entry with that
\* name in get_all_sensors_with_names; a device never renamed has no name row;
\* and an update_device_name with the name the device already has leaves
\* device_names as it is.
C20_RenameIsUpsert ==
  /\ [](\A sp_id \in DeviceNumbers :
          LET rows == {r \in device_names : r.device_sp_id = sp_id}
              entries == {x \in get_all_sensors_with_names : x.sp_id = sp_id}
          IN IF RenamesOk(sp_id) = {}
               THEN /\ rows = {}
                    /\ \A x \in entries : x.friendly_name = ""
               ELSE /\ Cardinality(rows) = 1
                    /\ Cardinality(entries) = 1
                    /\ \A x \in entries :
                         x.friendly_name = calls[Last(RenamesOk(sp_id))].args[2])
  /\ [][IsDbCall("update_device_name") =>
          LET c == calls'[Len(calls')]
          IN /\ (c.res = "ok" /\ \E r \in device_names :
                                   r.device_sp_id = c.args[1] /\ r.name = c.args[2])
                  => device_names' = device_names
             /\ c.res # "ok" => device_names' = device_names]_vars

\* device 1 was renamed "Garden" and then "Garden Shed": the list shows one
\* entry for it, named "Garden Shed"
C20_Witness ==
  /\ Len(calls) = 3
  /\ calls[2].op = "update_device_name" /\ calls[2].args = <<1, "Garden">>
  /\ calls[2].res = "ok"
  /\ calls[3].op = "update_device_name" /\ calls[3].args = <<1, "Garden Shed">>
  /\ calls[3].res = "ok"
  /\ \E x \in get_all_sensors_with_names : x.sp_id = 1 /\ x.friendly_name = "Garden Shed"

\* C21: an update_device_name for an sp_id that is not registered fails (with
\* the reference error when the storage answers) and leaves devices,
\* device_names and samples as they were; the reference error is raised for
\* no registered device.
C21_RenameNeedsDevice ==
  [][IsDbCall("update_device_name") =>
       LET c == calls'[Len(calls')]
           registered == \E d \in devices : d.sp_id = c.args[1]
       IN /\ ~registered =>
               /\ c.res \in {"reference", "err"}
               /\ devices' = devices /\ device_names' = device_names
               /\ samples' = samples
               /\ ~\E r \in device_names' : r.device_sp_id = c.args[1]
          /\ c.res = "reference" => ~registered]_vars

\* device 1 is registered and named; renaming device 2, which is not
\* registered, failed with the reference error
C21_Witness ==
  /\ Len(calls) = 3
  /\ calls[3].op = "update_device_name" /\ calls[3].args[1] = 2
  /\ calls[3].res = "reference"
  /\ devices = {[sp_id |-> 1, ble_id |-> 1]}
  /\ \E r \in device_names : r.device_sp_id = 1
  /\ ~\E r \in device_names : r.device_sp_id = 2

\* C22: the latest-sample query returns, for every device that has a sample,
\* one of its samples, and that sample's created_on is the maximum over the
\* device's samples, so it is at least that of every sample stored before;
\* a device without samples has no entry
C22_LatestIsMaximal ==
  [][get_latest_sample_for_all_sensors =>
       LET m == reply'.value
       IN /\ DOMAIN m = {samples[k].device_sp_id : k \in DOMAIN samples}
          /\ \A sp_id \in DOMAIN m :
               /\ m[sp_id].id \in DOMAIN samples
               /\ m[sp_id] = SampleRow(m[sp_id].id)
               /\ m[sp_id].device_sp_id = sp_id
               /\ \A k \in DOMAIN samples :
                    samples[k].device_sp_id = sp_id
                      => samples[k].created_on <= m[sp_id].created_on]_vars

\* device 1 has an older and a newer sample, stored in the opposite order after
\* a clock adjustment, the query returned the newer one, and device 2 has no
\* sample and no entry
C22_Witness ==
  /\ reply.op = "latest"
  /\ Len(samples) = 2
  /\ samples[1].device_sp_id = 1 /\ samples[2].device_sp_id = 1
  /\ samples[1].created_on = 1 /\ samples[2].created_on = 0
  /\ DOMAIN reply.value = {1}
  /\ reply.value[1].id = 1

\* C23: among the samples of a device that share the maximum created_on, the
\* latest-sample query returns the one inserted last
C23_TieBrokenByInsertion ==
  [][get_latest_sample_for_all_sensors =>
       \A sp_id \in DOMAIN reply'.value :
         \A k \in DOMAIN samples :
           /\ samples[k].device_sp_id = sp_id
           /\ samples[k].created_on = reply'.value[sp_id].created_on
           => k <= reply'.value[sp_id].id]_vars

\* C24: the export query returns exactly the samples whose created_on is
\* between begin and end, both included, in ascending created_on order, each
\* with the current name of its device or the empty string
C24_ExportInclusive ==
  [][\A begin_dt, end_dt \in DateTimes :
       get_samples_for_export(begin_dt, end_dt) =>
         LET rows == reply'.value
             S == {k \in DOMAIN samples :
                     /\ begin_dt.t <= samples[k].created_on
                     /\ samples[k].created_on <= end_dt.t}
         IN /\ {rows[i].row.id : i \in DOMAIN rows} = S
            /\ Len(rows) = Cardinality(S)
            /\ \A i \in DOMAIN rows : rows[i].row = SampleRow(rows[i].row.id)
            /\ \A i, j \in DOMAIN rows :
                 i < j => rows[i].row.created_on <= rows[j].row.created_on
            /\ \A i \in DOMAIN rows :
                 rows[i].friendly_name =
                   IF \E r \in device_names : r.device_sp_id = rows[i].row.device_sp_id
                     THEN (CHOOSE r \in device_names :
                             r.device_sp_id = rows[i].row.device_sp_id).name
                     ELSE ""]_vars

C26_WritesAtomic ==
  (\A w \in Writers : conn.pos[w].at = "idle") =>
    /\ devices = {[sp_id |-> 1, ble_id |-> 1]}
                   \cup {[sp_id |-> calls[i].args[1], ble_id |-> calls[i].args[2]] :
                           i \in {j \in DOMAIN calls : /\ calls[j].op = "add_device"
                                                       /\ calls[j].res = "ok"}}
    /\ \A sp_id \in DeviceNumbers :
         Cardinality({k \in DOMAIN samples : samples[k].device_sp_id = sp_id})
           = Cardinality({i \in DOMAIN calls : /\ calls[i].op = "add_sample"
                                               /\ calls[i].res = "ok"
                                               /\ calls[i].args[1] = sp_id})
    /\ {r.device_sp_id : r \in device_names}
         = {calls[i].args[1] :
              i \in {j \in DOMAIN calls : /\ calls[j].op = "update_device_name"
                                          /\ calls[j].res = "ok"}}

\* C27: the sensors query and the samples query never raise: a query made
\* when the storage connection is closed, or in which a step fails, returns the
\* empty list
C27_ReadsNeverRaise ==
  /\ [](reply.op \in {"sensors", "samples"} => ~reply.raised)
  /\ [][/\ phase = "closed"
        /\ \/ get_sensors_resolver
           \/ \E begin_dt, end_dt \in DateTimes : get_samples_resolver(begin_dt, end_dt)
        => /\ ~reply'.raised
           /\ reply'.op = "sensors" => reply'.value = {}
           /\ reply'.op = "samples" => reply'.value = <<>>]_vars

\* a sample of device 1 is stored, the connection is closed, and the samples
\* query made for the second of the sample returned the empty list
C27_Witness ==
  /\ phase = "closed"
  /\ Len(samples) = 1 /\ samples[1].created_on = 0
  /\ reply.op = "samples"
  /\ reply.args = <<[t |-> 0, tz |-> "naive"], [t |-> 0, tz |-> "naive"]>>
  /\ ~reply.raised
  /\ reply.value = <<>>

\* C28: every identity resolution that has started ends, the consumer being
\* free again for the next event, unless the consumer is cancelled first; this
\* is so even when the peer never answers the read
C28_ResolutionEnds ==
  \A e \in Events : Resolving(e) ~> (Processed(e) \/ phase # "running")

\* C29: when the consumer is cancelled during an identity resolution, after
\* its pause-scan, the resume-scan call of that resolution is made before the
\* shutdown goes on to stop the scanner and close the storage
C29_ResumeBeforeTeardown ==
  \A e \in Events :
    /\ proc[e] = "cancelled"
    /\ \E i \in CallsOf(e, "stop") : StopOk(i)
    /\ phase \in {"scanner_stopped", "closed"}
    => CallsOf(e, "start") # {}

\* C30: when the storage connection is closed the consumer has been cancelled
\* and has ended, and from then on it dequeues no event and makes no call for
\* any event
C30_ClosedAfterConsumerEnded ==
  /\ [](phase = "closed" =>
         /\ loop = "stopped"
         /\ \A e \in Events : ~Active(e))
  /\ [][phase' = "closed" =>
         /\ calls' = calls
         /\ proc' = proc
         /\ loop' = loop
         /\ \A e \in Range(advertisement_queue) : e \in Range(advertisement_queue')
         /\ devices' = devices /\ samples' = samples]_vars

\* the connection is closed, an event that was being processed was cancelled,
\* and another event is left in the queue
C30_Witness ==
  /\ phase = "closed"
  /\ proc[1] = "cancelled"
  /\ advertisement_queue = <<2>>
  /\ loop = "stopped"

\* C31: when SqlModel.create fails at startup, the scanner is not started, no
\* consumer task runs, the storage handle is not available, and nothing else
\* of the pipeline ever runs
C31_StartupAbortedOnDbFailure ==
  (calls # <<>> /\ calls[1].op = "create" /\ calls[1].res = "err") =>
    /\ phase = "failed"
    /\ ~scanning
    /\ loop = "stopped"
    /\ ~db_available
    /\ Len(calls) = 1
    /\ ads = <<>>

\* SqlModel.create has failed and startup has ended
C31_Witness ==
  /\ phase = "failed"
  /\ calls = <<Call("create", 0, "err")>>
  /\ ~scanning

\* C32: for an unregistered address the calls are made in the order
\* scanner.stop, identity read, add_device, scanner.start: the scanner is
\* stopped while a read or the add_device after it is pending, a read directly
\* follows the successful stop of its event, add_device directly follows a
\* read of its event that returned 4 bytes, and scanner.start directly follows
\* the failed or short read or the add_device of its event
C32_ResolverStepOrder ==
  /\ \A e \in Events : proc[e] \in {"read", "add"} => ~scanning
  /\ \A j \in DOMAIN calls :
       LET e == calls[j].ev
       IN /\ calls[j].op = "stop" =>
               j > 1 /\ calls[j - 1] = Call("device_exists", e, "false")
          /\ calls[j].op = "read" =>
               j > 1 /\ calls[j - 1] = Call("stop", e, "ok")
          /\ calls[j].op = "add_device" =>
               j > 1 /\ calls[j - 1] = Call("read", e, "len4")
          /\ calls[j].op = "start" =>
               /\ j > 1
               /\ calls[j - 1].ev = e
               /\ \/ calls[j - 1].op = "add_device"
                  \/ calls[j - 1].op = "read" /\ calls[j - 1].res \in {"err", "len3"}

\* the first event went through the whole sequence and registered its device
C32_Witness ==
  /\ Len(calls) >= 6
  /\ calls[3] = Call("stop", 1, "ok")
  /\ calls[4] = Call("read", 1, "len4")
  /\ calls[5] = Call("add_device", 1, "ok")
  /\ calls[6] = Call("start", 1, "ok")

\* C33: the device number registered by read_device_id is the first four bytes
\* of the payload taken as an unsigned little-endian 32-bit integer: with the
\* number written as hi * 65536 + lo, lo is byte 1 + 256 * byte 2 and hi is
\* byte 3 + 256 * byte 4, both in 0..65535, so the number is in 0..2^32-1; the
\* bytes 01 00 00 00 give 1; and bytes after the fourth do not enter it
C33_DeviceNumberLittleEndian ==
  [][(reply' # reply /\ reply'.op = "read_device_id" /\ reply'.res = "ok") =>
       LET raw_val == reply'.args[2]
       IN   /\ Len(raw_val) >= 4
            /\ \E d \in devices' :
                 /\ d \notin devices
                 /\ d.ble_id = 1
                 /\ d.sp_id.lo = raw_val[1] + 256 * raw_val[2]
                 /\ d.sp_id.hi = raw_val[3] + 256 * raw_val[4]
                 /\ d.sp_id.lo \in 0..65535 /\ d.sp_id.hi \in 0..65535
                 /\ (first_four(raw_val) = <<1, 0, 0, 0>>
                      => d.sp_id.hi = 0 /\ d.sp_id.lo = 1)]_vars

\* the payload 01 00 00 00 followed by a fifth byte registered device number 1
C33_Witness ==
  /\ reply.op = "read_device_id"
  /\ reply.args[2] = <<1, 0, 0, 0, 255>>
  /\ reply.res = "ok"
  /\ devices = {[sp_id |-> [hi |-> 0, lo |-> 1], ble_id |-> 1]}

\* C34: the records of one device are put on sample_queue in the order in
\* which their samples were stored: of two records of a device the one put
\* first belongs to the row stored first
C34_FeedInPersistOrder ==
  \A i, j \in DOMAIN sample_queue :
    (i < j /\ sample_queue[i].device_sp_id = sample_queue[j].device_sp_id) =>
      \A k \in RowsOf(sample_queue[i].id), l \in RowsOf(sample_queue[j].id) : k < l

\* two samples of device 1 were stored and both were published
C34_Witness ==
  /\ Len(samples) = 2
  /\ Len(sample_queue) = 2
  /\ sample_queue[1].id = samples[1].ev
  /\ sample_queue[2].id = samples[2].ev
  /\ sample_queue[1].device_sp_id = 1 /\ sample_queue[2].device_sp_id = 1

\* C35: once the shutdown has closed the connection no storage operation is
\* attempted on it: no coroutine makes a request to the connection, a publish
\* task inside get_sensor_by_sp_id included
C35_NoRequestAfterClose ==
  [][phase = "closed" => Len(worker') <= Len(worker)]_vars

\* the device number read from address a is registered under another address
Conflicting(a) ==
  \E d \in devices : d.sp_id = DeviceNumber(a) /\ d.ble_id # a

\* C36: an address whose identity read yields a device number registered under
\* another address is never known and no sample row comes from it: add_device
\* fails for it, and every advertisement from it that is looked up after such
\* a failure is unknown again and, run without an error, makes the pause, the
\* read, the failing add_device and the resume again
C36_ConflictingAddressNeverKnown ==
  /\ \A a \in Addresses : Conflicting(a) => ~Known(a)
  /\ \A k \in DOMAIN samples : ~Conflicting(ads[samples[k].ev].addr)
  /\ \A i \in DOMAIN calls :
       (calls[i].op = "add_device" /\ Conflicting(ads[calls[i].ev].addr))
         => calls[i].res \in {"conflict", "err"}
  /\ \A i, j \in DOMAIN calls :
       LET e == calls[j].ev
       IN (/\ i < j
           /\ calls[i] = Call("add_device", calls[i].ev, "conflict")
           /\ ads[calls[i].ev].addr = ads[e].addr
           /\ calls[j].op = "device_exists")
          => /\ calls[j].res \in {"false", "err"}
             /\ CallsOf(e, "get_device_sp_id") = {} /\ CallsOf(e, "add_sample") = {}
             /\ (proc[e] = "done" /\ \A l \in DOMAIN calls : calls[l].ev = e => calls[l].res # "err")
                  => /\ \E l \in CallsOf(e, "stop") : l = j + 1
                     /\ \E l \in CallsOf(e, "read") : l = j + 2
                     /\ calls[j + 2].res = "len4"
                          => calls[j + 3] = Call("add_device", e, "conflict")
                     /\ \E l \in CallsOf(e, "start") : l = Len(calls) \/ calls[l + 1].ev # e

\* address 3 reads the number of the registered address 1: its first
\* advertisement failed in add_device and its second one ran the cycle again
C36_Witness ==
  /\ Len(ads) = 2
  /\ ads[1].addr = 3 /\ ads[2].addr = 3
  /\ proc[1] = "done" /\ proc[2] = "done"
  /\ \E i \in CallsOf(1, "add_device") : calls[i].res = "conflict"
  /\ \E i \in CallsOf(2, "stop") : calls[i].res = "ok"
  /\ \E i \in CallsOf(2, "add_device") : calls[i].res = "conflict"
  /\ \E i \in CallsOf(2, "start") : calls[i].res = "ok"

\* C37: an advertisement that found its device unknown and started the
\* identity resolution has no sample row, no on_sample task and no record on
\* sample_queue, whatever it carries and however the resolution ends; every
\* sample row comes from an advertisement other than the one whose add_device
\* registered the device, stored after that add_device
C37_TriggerMakesNoSample ==
  /\ \A e \in Events :
       (\E i \in CallsOf(e, "device_exists") : calls[i].res = "false")
         => /\ RowsOf(e) = {}
            /\ CallsOf(e, "get_device_sp_id") = {} /\ CallsOf(e, "add_sample") = {}
            /\ pub[e] = "none"
            /\ \A i \in DOMAIN sample_queue : sample_queue[i].id # e
  /\ \A k \in DOMAIN samples :
       \E i \in DOMAIN calls, j \in CallsOf(samples[k].ev, "add_sample") :
         /\ calls[i] = Call("add_device", calls[i].ev, "ok")
         /\ DeviceNumber(ads[calls[i].ev].addr) = samples[k].device_sp_id
         /\ calls[i].ev # samples[k].ev
         /\ i < j

\* a full advertisement registered its device and resumed the scan, and the
\* next advertisement of the device was stored and published
C37_Witness ==
  /\ Len(ads) = 2
  /\ ads[1] = [addr |-> 1, kind |-> "full"]
  /\ \E i \in CallsOf(1, "add_device") : calls[i].res = "ok"
  /\ \E i \in CallsOf(1, "start") : calls[i].res = "ok"
  /\ proc[1] = "done"
  /\ RowsOf(2) # {}
  /\ \E i \in DOMAIN sample_queue : sample_queue[i].id = 2

\* C38: an advertisement that is not from a supported sensor changes nothing:
\* the step that takes it from the queue leaves the scanner, the tables and the
\* publishing tasks as they are and ends its processing, and no call is ever
\* made for it: no scanner.stop(), no read, no storage method
C38_UnsupportedIsIgnored ==
  /\ [](\A e \in DOMAIN ads :
          ads[e].kind = "unsupported"
            => /\ proc[e] \in {"none", "done"}
               /\ \A i \in DOMAIN calls : calls[i].ev = e => calls[i].op = "get"
               /\ RowsOf(e) = {}
               /\ pub[e] = "none")
  /\ [][\A e \in DOMAIN ads :
          (ads[e].kind = "unsupported" /\ calls' = Append(calls, Call("get", e, "unsupported")))
            => /\ proc'[e] = "done"
               /\ loop' = "get"
               /\ scanning' = scanning
               /\ devices' = devices /\ samples' = samples /\ device_names' = device_names
               /\ pub' = pub /\ sample_queue' = sample_queue]_vars

\* the sensor of address 1 is registered and scanning goes on; its second
\* advertisement, which is not a supported one, was taken from the queue last
C38_Witness ==
  /\ Len(ads) = 2
  /\ ads[2].kind = "unsupported"
  /\ Known(1)
  /\ scanning
  /\ proc[2] = "done"
  /\ calls[Len(calls)] = Call("get", 2, "unsupported")
====
